---- MODULE Spec2Model ----
(***************************************************************************)
(* Model of the REACT ground-control telemetry/command link                *)
(* (react/core/mavlink_manager.py): the mission-upload engine of           *)
(* MAVLinkManager - load_mission, the per-vehicle upload worker thread,    *)
(* the receive-loop handler of MISSION_REQUEST / MISSION_REQUEST_INT /     *)
(* MISSION_ACK and the counting semaphore that gates concurrent uploads.   *)
(*                                                                         *)
(* Threads of the program and how they appear here:                        *)
(*   - the command thread calls load_mission (one action per call);        *)
(*   - the receive loop (_loop) takes one inbound Telem1 message per step  *)
(*     and runs the connection sweep;                                      *)
(*   - one worker thread per started upload (_mission_upload_thread),      *)
(*     one action per blocking point or shared-state access.               *)
(* In Spec and SpecGate time is not measured: a timeout is a step that may *)
(* be taken whenever the awaited event has not happened.  SpecQueue        *)
(* measures the time each worker has spent in its two blocking calls.      *)
(***************************************************************************)
EXTENDS Integers, Sequences, FiniteSets, TLC

\* ---------------------------------------------------------------- bounds
NumUAVs == 3          \* vehicles that may appear on Telem1
MaxWaypoints == 2     \* longest mission file (number of valid waypoints)
MaxAckType == 1       \* MISSION_ACK codes drawn from 0..MaxAckType
LinkHorizon == 7      \* seconds of clock in SpecLink
ArmHorizon == 5       \* seconds of clock in SpecArm
SafetyHorizon == 32   \* seconds of clock in SpecSafety
CommHorizon == 44     \* seconds of clock in SpecComm
MaxTimerLag == 2      \* seconds between two firings of the safety timer
MaxIndex == 2         \* highest waypoint index of a mission file
MaxCoord == 2         \* latitudes and longitudes drawn from 0..MaxCoord
ConnHorizon == 12     \* seconds of clock in SpecConn

\* ------------------------------------------------------ program constants
MaxConcurrent == 2            \* telemetry1.max_concurrent_uploads default
MAV_MISSION_ACCEPTED == 0
mission_upload_timeout == 30
SlotAcquireTimeout == 120
Telem2Repeats == 3            \* for i in range(3) in send_command_telem2
telem2_status_timeout == 5
command_timeout == 3          \* UAVState.command_timeout
alert_cooldown == 30
battery_warning_threshold == 30
battery_critical_threshold == 20
battery_emergency_threshold == 10
uav_connection_timeout == 10       \* MAVLinkManager.uav_connection_timeout
communication_timeout == 10

UAVs == 1..NumUAVs
Seqs == 0..MaxWaypoints       \* sequence numbers a vehicle may request
AckTypes == 0..MaxAckType

VARIABLES
    telem1_connection,        \* TRUE: Telem1 (Primary) is open; FALSE: None
    discovered,               \* discovered_uavs / keys of uav_states
    telem1_status,            \* UAVState.telem1_status per vehicle
    active_mission_uploads,   \* dict uav -> upload_state
    mission_upload_events,    \* dict uav -> threading.Event (TRUE = set)
    upload_semaphore,         \* free slots of the counting semaphore
    upload_thread,            \* dict uav -> worker before its clean-up
    releasing,                \* workers that reported and are in `finally`
    ret,                      \* value returned by the call of this step
    emitted,                  \* mission_upload_completed emitted this step
    tx,                       \* wire messages transmitted by this step
                              \* (and lines it wrote to a temporary file)
    now,                      \* time.time(), in whole seconds
    telem2_connection,        \* TRUE: Telem2 (Secondary) is open; FALSE: None
    uav_telem2_status,        \* dict system_id -> Telem2 health flag
    uav_telem2_last_update,   \* dict system_id -> time of last status report
    armed,                    \* UAVState.armed per vehicle
    pending_arm_command,      \* UAVState.pending_arm_command: <<>> or <<t>>
    pending_disarm_command,   \* UAVState.pending_disarm_command
    heartbeat,                \* dict uav -> HEARTBEAT the receive loop is in
    battery_status,           \* UAVState.battery_status per vehicle
    last_alert_time,          \* dict uav -> dict alert kind -> time
    last_update,              \* UAVState.last_update per vehicle
    alert_history,            \* SafetyMonitor.alert_history: the alerts sent
    uav_last_seen,            \* dict system_id -> time of its last message
    original_waypoint_indices, \* UAVState attribute set by App.load_mission
    uploaded_waypoint_indices, \* indices of the mission now in the vehicle
    reached_waypoint_indices, \* original indices reported reached, sorted
    gps_fix_type,             \* UAVState.gps_fix_type per vehicle
    position,                 \* UAVState.latitude / longitude per vehicle
    home,                     \* UAVState.home_lat / home_lng per vehicle
    mode,                     \* UAVState.mode per vehicle
    mission_running,          \* UAVState.mission_running per vehicle
    mavlink_lock,             \* the thread inside `with self.mavlink_lock`
    sender,                   \* per thread: the wire send it is making
    inbox,                    \* messages waiting in the Telem1 connection
    clear_wait,               \* the call waiting in clear_mission, if any
    item_reached              \* dict uav -> MISSION_ITEM_REACHED the
                              \* receive loop is in the middle of

upload_vars == <<active_mission_uploads, mission_upload_events,
                 upload_semaphore, upload_thread, releasing>>
link_vars == <<telem2_connection, uav_telem2_status, uav_telem2_last_update>>
arm_vars == <<armed, pending_arm_command, pending_disarm_command, heartbeat>>
safety_vars == <<battery_status, last_alert_time, alert_history, last_update>>
mission_vars == <<original_waypoint_indices, uploaded_waypoint_indices,
                  reached_waypoint_indices>>
fix_vars == <<gps_fix_type, position, home>>
timer_vars == <<mode, mission_running>>
\* the part of a vehicle record that only mission planning, position
\* messages and mode changes write, with the positions of the threads
\* where each thread of the program stands inside a wire send, a read of
\* Telem1 or a handler that another thread may cut in on
thread_vars == <<mavlink_lock, sender, inbox, clear_wait, item_reached>>
record_vars == <<mission_vars, fix_vars, timer_vars, thread_vars>>

vars == <<telem1_connection, discovered, telem1_status, active_mission_uploads,
          mission_upload_events, upload_semaphore, upload_thread, releasing,
          ret, emitted, tx, now, link_vars, arm_vars, safety_vars,
          uav_last_seen, record_vars>>

\* what the mission-upload engine and the Telem1 discovery leave alone
beyond_upload == <<now, link_vars, arm_vars, safety_vars, record_vars>>

\* ---------------------------------------------------------------- dicts
Put(d, k, x) == [i \in DOMAIN d \cup {k} |-> IF i = k THEN x ELSE d[i]]
Del(d, k) == [i \in DOMAIN d \ {k} |-> d[i]]
EmptyDict == [i \in {} |-> 0]

\* ------------------------------------------------------------ upload state
NoError == <<"None", 0>>

\* the reservation written by _upload_mission_to_uav: only 'phase' and
\* 'reserved' exist; the other keys are absent (reserved = TRUE marks that)
PendingState ==
    [phase |-> "pending", reserved |-> TRUE, waypoints |-> 0,
     waypoints_sent |-> 0, requests_received |-> {}, ack_received |-> FALSE,
     success |-> FALSE, error |-> NoError]

\* the upload_state the worker registers once it holds a slot
InitialUploadState(n) ==
    [phase |-> "count_sent", reserved |-> FALSE, waypoints |-> n,
     waypoints_sent |-> 0, requests_received |-> {}, ack_received |-> FALSE,
     success |-> FALSE, error |-> NoError]

error_msgs(ack_type) ==
    CASE ack_type = 1 -> <<"Generic error (MAV_MISSION_ERROR)", 0>>
      [] ack_type = 2 -> <<"Unsupported coordinate frame", 0>>
      [] ack_type = 3 -> <<"Unsupported mission command", 0>>
      [] ack_type = 4 -> <<"No space left on device", 0>>
      [] ack_type = 5 -> <<"Invalid mission", 0>>
      [] ack_type = 6 -> <<"Invalid param1", 0>>
      [] ack_type = 7 -> <<"Invalid param2", 0>>
      [] ack_type = 8 -> <<"Invalid param3", 0>>
      [] ack_type = 9 -> <<"Invalid param4", 0>>
      [] ack_type = 10 -> <<"Invalid param5/X coordinate", 0>>
      [] ack_type = 11 -> <<"Invalid param6/Y coordinate", 0>>
      [] ack_type = 12 -> <<"Invalid param7/altitude", 0>>
      [] ack_type = 13 -> <<"Invalid sequence", 0>>
      [] ack_type = 14 -> <<"Mission denied", 0>>
      [] ack_type = 15 -> <<"Not in a mission (mission may still be loaded)", 0>>
      [] ack_type = 16 -> <<"No missions available", 0>>
      [] ack_type = 17 -> <<"Mission out of bounds", 0>>
      [] ack_type = 18 -> <<"Temporary failure (retry later)", 0>>
      [] OTHER -> <<"Unknown MAVLink error code", ack_type>>

\* ------------------------------------------------------------ wire messages
Msg(chan, type, target, arg) ==
    [chan |-> chan, type |-> type, target |-> target, arg |-> arg]

ItemType(msg_type) ==
    IF msg_type = "MISSION_REQUEST_INT" THEN "MISSION_ITEM_INT" ELSE "MISSION_ITEM"

Completed(v, success, text, detail) ==
    [uav |-> v, success |-> success, message |-> <<text, detail>>]

Returned(op, value) == [op |-> op, value |-> value]

\* ------------------------------------------------------------------- Init
\* the clock reads unix time: far more than any window of the program
StartTime == 2 * alert_cooldown

\* a timestamp attribute that is None
NoTime == <<>>

\* latitude / longitude 0.0, 0.0: no position, no home
NoPlace == [lat |-> 0, lng |-> 0]

\* latitudes and longitudes a message may carry; 0 is 0.0
Places == [lat : 0..MaxCoord, lng : 0..MaxCoord]

\* GPS_RAW_INT.fix_type: no fix, 2D fix, 3D fix
FixTypes == {0, 2, 3}

\* mutant: home follows the position whenever the fix is good
HomeFollowsPosition(h, fix, place) ==
    IF fix >= 3 /\ place.lat # 0 /\ place.lng # 0 THEN place ELSE h

\* UAVState.update_home_position_if_needed, run at the end of every
\* update_telemetry: the home after it (the altitude goes with the place)
update_home_position_if_needed(h, fix, place) ==
    IF /\ h.lat = 0 /\ h.lng = 0
       /\ fix >= 3
       /\ place.lat # 0 /\ place.lng # 0
    THEN place
    ELSE h

\* the waypoint bookkeeping of a vehicle record before any mission is loaded
InitMissionRecord ==
    /\ original_waypoint_indices = [v \in UAVs |-> <<>>]
    /\ uploaded_waypoint_indices = [v \in UAVs |-> <<>>]
    /\ reached_waypoint_indices = [v \in UAVs |-> <<>>]

\* UAVState defaults, no Telem2 report, no alert sent
\* the threads a wire send or a read of Telem1 is made on: the receive
\* loop, the thread commands and load requests are called on, and one
\* upload worker
Threads == {"loop", "command", "worker"}

\* no send in progress
Idle ==
    [pc |-> "idle", chan |-> "none", type |-> "none", target |-> 0,
     locked |-> FALSE]

Free == "free"

\* no thread is inside a send, a wait or a handler
InitThreads ==
    /\ mavlink_lock = Free
    /\ sender = [t \in Threads |-> Idle]
    /\ inbox = <<>>
    /\ clear_wait = <<>>
    /\ item_reached = EmptyDict

InitRecords ==
    /\ now = StartTime
    /\ uav_telem2_status = EmptyDict
    /\ uav_telem2_last_update = EmptyDict
    /\ armed = [v \in UAVs |-> FALSE]
    /\ pending_arm_command = [v \in UAVs |-> NoTime]
    /\ pending_disarm_command = [v \in UAVs |-> NoTime]
    /\ heartbeat = EmptyDict
    /\ battery_status = [v \in UAVs |-> 100]
    /\ last_alert_time = EmptyDict
    /\ last_update = [v \in UAVs |-> NoTime]
    /\ alert_history = [v \in UAVs |-> <<>>]
    /\ gps_fix_type = [v \in UAVs |-> 0]
    /\ position = [v \in UAVs |-> NoPlace]
    /\ home = [v \in UAVs |-> NoPlace]
    /\ mode = [v \in UAVs |-> "DISARMED"]
    /\ mission_running = [v \in UAVs |-> FALSE]
    /\ InitThreads

\* the state outside the upload engine after construction
InitBeyond ==
    /\ InitRecords
    /\ uav_last_seen = EmptyDict
    /\ InitMissionRecord

\* the upload engine after construction
InitUploadEngine ==
    /\ active_mission_uploads = EmptyDict
    /\ mission_upload_events = EmptyDict
    /\ upload_semaphore = MaxConcurrent
    /\ upload_thread = EmptyDict
    /\ releasing = 0
    /\ ret = <<>>
    /\ emitted = <<>>
    /\ tx = <<>>

Init ==
    /\ telem1_connection \in BOOLEAN
    /\ discovered = {}
    /\ telem1_status = [v \in UAVs |-> FALSE]
    /\ active_mission_uploads = EmptyDict
    /\ mission_upload_events = EmptyDict
    /\ upload_semaphore = MaxConcurrent
    /\ upload_thread = EmptyDict
    /\ releasing = 0
    /\ ret = <<>>
    /\ emitted = <<>>
    /\ tx = <<>>
    /\ telem2_connection = FALSE
    /\ InitBeyond

\* ------------------------------------------------- receive loop (Telem1)
\* _handle_telem1_message: discovery, last-seen, set_connected(True)
HomeRequest(v) ==
    IF v \in discovered THEN <<>>
    ELSE <<Msg("telem1", "COMMAND_LONG", v, 242)>>

Telem1Seen(v) ==
    /\ telem1_connection
    /\ discovered' = discovered \cup {v}
    /\ uav_last_seen' = Put(uav_last_seen, v, now)
    /\ telem1_status' = [telem1_status EXCEPT ![v] = TRUE]

\* a session whose 'waypoints' key exists (the reservation has none: the
\* handler raises KeyError there, which _loop catches and logs)
HasWaypoints(v) ==
    /\ v \in DOMAIN active_mission_uploads
    /\ ~active_mission_uploads[v].reserved

\* mutant: a duplicate request is answered again
SendsItemAgain(us, seq) == seq < us.waypoints

\* is a mission item sent in answer to a request for seq
SendsItem(us, seq) ==
    /\ seq < us.waypoints
    /\ seq \notin us.requests_received

\* upload_state after a request for seq (MISSION_REQUEST[_INT] branch)
OnMissionRequest(us, seq) ==
    IF seq < us.waypoints
    THEN IF seq \in us.requests_received
         THEN us
         ELSE LET received == us.requests_received \cup {seq} IN
              [us EXCEPT !.requests_received = received,
                         !.waypoints_sent = @ + 1,
                         !.phase = IF Cardinality(received) >= us.waypoints
                                   THEN "waiting_ack" ELSE @]
    ELSE [us EXCEPT !.error = <<"Invalid waypoint request", seq>>,
                    !.phase = "error"]

\* mutant: the accepted branch marks the phase but not the success flag
OnMissionAckNoSuccess(us, ack_type) ==
    IF ack_type = MAV_MISSION_ACCEPTED
    THEN [us EXCEPT !.ack_received = TRUE, !.phase = "complete"]
    ELSE [us EXCEPT !.error = error_msgs(ack_type), !.phase = "error",
                    !.success = FALSE]

\* upload_state after a MISSION_ACK of type ack_type
OnMissionAck(us, ack_type) ==
    IF ack_type = MAV_MISSION_ACCEPTED
    THEN [us EXCEPT !.ack_received = TRUE, !.phase = "complete",
                    !.success = TRUE]
    ELSE [us EXCEPT !.error = error_msgs(ack_type), !.phase = "error",
                    !.success = FALSE]

\* does the handler set the completion event after a MISSION_ACK
SignalsCompletion(v) == v \in DOMAIN mission_upload_events

\* inbound MISSION_REQUEST / MISSION_REQUEST_INT from vehicle v
RecvMissionRequest(v, msg_type, seq) ==
    /\ Telem1Seen(v)
    /\ IF HasWaypoints(v)
       THEN LET us == active_mission_uploads[v] IN
            /\ active_mission_uploads' =
                   Put(active_mission_uploads, v, OnMissionRequest(us, seq))
            /\ tx' = HomeRequest(v) \o
                     (IF SendsItem(us, seq)
                      THEN <<Msg("telem1", ItemType(msg_type), v, seq)>>
                      ELSE <<>>)
       ELSE /\ UNCHANGED active_mission_uploads
            /\ tx' = HomeRequest(v)
    /\ ret' = <<>>
    /\ emitted' = <<>>
    /\ UNCHANGED <<telem1_connection, mission_upload_events, upload_semaphore,
                   upload_thread, releasing>>
    /\ UNCHANGED beyond_upload

\* inbound MISSION_ACK from vehicle v
RecvMissionAck(v, ack_type) ==
    /\ Telem1Seen(v)
    /\ IF v \in DOMAIN active_mission_uploads
       THEN /\ active_mission_uploads' =
                   Put(active_mission_uploads, v,
                       OnMissionAck(active_mission_uploads[v], ack_type))
            /\ mission_upload_events' =
                   IF SignalsCompletion(v)
                   THEN Put(mission_upload_events, v, TRUE)
                   ELSE mission_upload_events
       ELSE UNCHANGED <<active_mission_uploads, mission_upload_events>>
    /\ tx' = HomeRequest(v)
    /\ ret' = <<>>
    /\ emitted' = <<>>
    /\ UNCHANGED <<telem1_connection, upload_semaphore, upload_thread, releasing>>
    /\ UNCHANGED beyond_upload

\* any other inbound message (heartbeat, position, ...) from vehicle v
RecvTelemetry(v) ==
    /\ Telem1Seen(v)
    /\ tx' = HomeRequest(v)
    /\ ret' = <<>>
    /\ emitted' = <<>>
    /\ UNCHANGED <<telem1_connection, active_mission_uploads,
                   mission_upload_events, upload_semaphore, upload_thread,
                   releasing>>
    /\ UNCHANGED beyond_upload

\* _check_uav_connection_status: no message from v for longer than 10 s
\* (the clock comparison itself is CheckUavConnectionStatus, below)
ConnectionLost(v) ==
    /\ v \in discovered
    /\ telem1_status[v]
    /\ telem1_status' = [telem1_status EXCEPT ![v] = FALSE]
    /\ home' = [home EXCEPT ![v] = NoPlace]
    /\ ret' = <<>>
    /\ emitted' = <<>>
    /\ tx' = <<>>
    /\ UNCHANGED <<telem1_connection, discovered, uav_last_seen,
                   active_mission_uploads, mission_upload_events,
                   upload_semaphore, upload_thread, releasing>>
    /\ UNCHANGED <<now, link_vars, arm_vars, safety_vars, mission_vars,
                   gps_fix_type, position, timer_vars,
                   thread_vars>>

\* ------------------------------------------------ command thread: uploads
\* clear_mission: is MISSION_CLEAR_ALL transmitted (it then waits for an ACK
\* and returns True with or without one)
ClearSends(v) == v \in discovered /\ telem1_connection

\* mutant: a vehicle reachable on either channel may start an upload
CanStartUploadAnyChannel(v, n) ==
    /\ n > 0
    /\ v \in discovered
    /\ \/ telem1_connection /\ telem1_status[v]
       \/ /\ telem2_connection
          /\ v \in DOMAIN uav_telem2_status /\ uav_telem2_status[v]
    /\ v \notin DOMAIN active_mission_uploads

\* _upload_mission_to_uav: the entry condition and the one-session check
CanStartUpload(v, n) ==
    /\ n > 0
    /\ telem1_connection /\ v \in discovered /\ telem1_status[v]
    /\ v \notin DOMAIN active_mission_uploads

\* mutant: load_mission without its own in-progress check
RejectedEarlyNoBusyCheck(v, n) == v \notin discovered \/ n = 0

\* load_mission: is the request turned away before anything is transmitted
\* (unknown vehicle, no valid waypoint, upload already in progress)
RejectedEarly(v, n) ==
    \/ v \notin discovered
    \/ n = 0
    \/ v \in DOMAIN active_mission_uploads

\* threading.Thread(target=self._mission_upload_thread, ...).start(): the
\* worker's position, its waypoint list (by length), its timeout_occurred
\* local, and the seconds it has spent blocked in the acquire and in the wait
NewThread(n) ==
    [pc |-> "start", waypoints |-> n, timeout_occurred |-> FALSE,
     slot_waited |-> 0, ack_waited |-> 0]

\* MAVLinkManager.load_mission(uav_id, file) where the file parses to n valid
\* waypoints: what the call transmits
MissionClear(v, n) ==
    IF ~RejectedEarly(v, n) /\ ClearSends(v)
    THEN <<Msg("telem1", "MISSION_CLEAR_ALL", v, 0)>>
    ELSE <<>>

\* ... and what it registers and returns
load_mission(v, n) ==
    IF RejectedEarly(v, n)
    THEN /\ ret' = <<Returned("load_mission", FALSE)>>
         /\ UNCHANGED <<active_mission_uploads, upload_thread>>
    ELSE /\ IF CanStartUpload(v, n)
            THEN /\ active_mission_uploads' =
                        Put(active_mission_uploads, v, PendingState)
                 /\ upload_thread' =
                        Put(upload_thread, v,
                            NewThread(n))
                 /\ ret' = <<Returned("load_mission", TRUE)>>
            ELSE /\ ret' = <<Returned("load_mission", FALSE)>>
                 /\ UNCHANGED <<active_mission_uploads, upload_thread>>

\* the call made directly on the MAVLink manager
LoadMission(v, n) ==
    /\ load_mission(v, n)
    /\ tx' = MissionClear(v, n)
    /\ emitted' = <<>>
    /\ UNCHANGED <<telem1_connection, discovered, telem1_status,
                   uav_last_seen,
                   mission_upload_events, upload_semaphore, releasing>>
    /\ UNCHANGED beyond_upload

\* ------------------------------------------- worker: _mission_upload_thread
At(v, pc) == v \in DOMAIN upload_thread /\ upload_thread[v].pc = pc

Goto(v, pc) == upload_thread' = [upload_thread EXCEPT ![v].pc = pc]

Quiet == ret' = <<>> /\ emitted' = <<>> /\ tx' = <<>>

\* mutant: the acquire never blocks
SlotFreeAlways == TRUE

\* Semaphore.acquire: a slot can be taken
SlotFree == upload_semaphore > 0

\* upload_semaphore.acquire(blocking=True, timeout=120) returns True
AcquireSlot(v) ==
    /\ At(v, "start")
    /\ SlotFree
    /\ upload_semaphore' = upload_semaphore - 1
    /\ Goto(v, "acquired")
    /\ Quiet
    /\ UNCHANGED <<telem1_connection, discovered, telem1_status,
                   uav_last_seen,
                   active_mission_uploads, mission_upload_events, releasing>>
    /\ UNCHANGED beyond_upload

\* what the worker leaves in active_mission_uploads when it gives up waiting
\* for a slot
AfterSlotTimeout(uploads, v) == uploads

\* the acquire times out: no slot became free for 120 s
AcquireTimeout(v) ==
    /\ At(v, "start")
    /\ ~SlotFree
    /\ upload_thread' = Del(upload_thread, v)
    /\ active_mission_uploads' = AfterSlotTimeout(active_mission_uploads, v)
    /\ emitted' = <<Completed(v, FALSE, "Timeout waiting for upload slot", NoError)>>
    /\ ret' = <<>>
    /\ tx' = <<>>
    /\ UNCHANGED <<telem1_connection, discovered, telem1_status,
                   uav_last_seen,
                   mission_upload_events, upload_semaphore, releasing>>
    /\ UNCHANGED beyond_upload

\* self.mission_upload_events[uav_id] = threading.Event()
RegisterEvent(v) ==
    /\ At(v, "acquired")
    /\ mission_upload_events' = Put(mission_upload_events, v, FALSE)
    /\ Goto(v, "event")
    /\ Quiet
    /\ UNCHANGED <<telem1_connection, discovered, telem1_status,
                   uav_last_seen,
                   active_mission_uploads, upload_semaphore, releasing>>
    /\ UNCHANGED beyond_upload

\* self.active_mission_uploads[uav_id] = upload_state
RegisterUpload(v) ==
    /\ At(v, "event")
    /\ active_mission_uploads' =
           Put(active_mission_uploads, v,
               InitialUploadState(upload_thread[v].waypoints))
    /\ Goto(v, "registered")
    /\ Quiet
    /\ UNCHANGED <<telem1_connection, discovered, telem1_status,
                   uav_last_seen,
                   mission_upload_events, upload_semaphore, releasing>>
    /\ UNCHANGED beyond_upload

\* mission_count_send(system_id, 1, len(waypoints), ...)
SendMissionCount(v) ==
    /\ At(v, "registered")
    /\ tx' = <<Msg("telem1", "MISSION_COUNT", v, upload_thread[v].waypoints)>>
    /\ Goto(v, "wait")
    /\ ret' = <<>>
    /\ emitted' = <<>>
    /\ UNCHANGED <<telem1_connection, discovered, telem1_status,
                   uav_last_seen,
                   active_mission_uploads, mission_upload_events,
                   upload_semaphore, releasing>>
    /\ UNCHANGED beyond_upload

\* mutant: the worker leaves without reaching the release
LeaveTryNoRelease(n) == n

\* slots handed to the `finally` clause when a worker leaves the try block
LeaveTry(n) == n + 1

\* the send raises: the `except` clause cleans up and reports
SendMissionCountRaises(v) ==
    /\ At(v, "registered")
    /\ active_mission_uploads' = Del(active_mission_uploads, v)
    /\ mission_upload_events' = Del(mission_upload_events, v)
    /\ upload_thread' = Del(upload_thread, v)
    /\ releasing' = LeaveTry(releasing)
    /\ emitted' = <<Completed(v, FALSE, "Exception", NoError)>>
    /\ ret' = <<>>
    /\ tx' = <<>>
    /\ UNCHANGED <<telem1_connection, discovered, telem1_status,
                   uav_last_seen, upload_semaphore>>
    /\ UNCHANGED beyond_upload

\* completion_event.wait(timeout) returns True: the event is set
WaitSignaled(v) ==
    /\ At(v, "wait")
    /\ mission_upload_events[v]
    /\ upload_thread' = [upload_thread EXCEPT ![v].pc = "woke",
                                               ![v].timeout_occurred = FALSE]
    /\ Quiet
    /\ UNCHANGED <<telem1_connection, discovered, telem1_status,
                   uav_last_seen,
                   active_mission_uploads, mission_upload_events,
                   upload_semaphore, releasing>>
    /\ UNCHANGED beyond_upload

\* completion_event.wait(timeout) returns False after mission_upload_timeout
WaitTimeout(v) ==
    /\ At(v, "wait")
    /\ ~mission_upload_events[v]
    /\ upload_thread' = [upload_thread EXCEPT ![v].pc = "woke",
                                               ![v].timeout_occurred = TRUE]
    /\ Quiet
    /\ UNCHANGED <<telem1_connection, discovered, telem1_status,
                   uav_last_seen,
                   active_mission_uploads, mission_upload_events,
                   upload_semaphore, releasing>>
    /\ UNCHANGED beyond_upload

\* mutant: the result is chosen from success and error alone
UploadResultNoTimeout(v, timeout_occurred, us) ==
    IF us.success
    THEN Completed(v, TRUE, "Mission uploaded successfully", NoError)
    ELSE Completed(v, FALSE, "Upload failed", us.error)

\* the notification chosen from timeout_occurred, success and error
UploadResult(v, timeout_occurred, us) ==
    IF timeout_occurred
    THEN Completed(v, FALSE, "Upload timeout", NoError)
    ELSE IF us.success
         THEN Completed(v, TRUE, "Mission uploaded successfully", NoError)
         ELSE Completed(v, FALSE, "Upload failed", us.error)

\* get results, clean up, report
ReportResults(v) ==
    /\ At(v, "woke")
    /\ emitted' = <<UploadResult(v, upload_thread[v].timeout_occurred,
                                 active_mission_uploads[v])>>
    /\ active_mission_uploads' = Del(active_mission_uploads, v)
    /\ mission_upload_events' = Del(mission_upload_events, v)
    /\ upload_thread' = Del(upload_thread, v)
    /\ releasing' = LeaveTry(releasing)
    /\ ret' = <<>>
    /\ tx' = <<>>
    /\ UNCHANGED <<telem1_connection, discovered, telem1_status,
                   uav_last_seen, upload_semaphore>>
    /\ UNCHANGED beyond_upload

\* finally: self.upload_semaphore.release()
ReleaseSlot ==
    /\ releasing > 0
    /\ releasing' = releasing - 1
    /\ upload_semaphore' = upload_semaphore + 1
    /\ Quiet
    /\ UNCHANGED <<telem1_connection, discovered, telem1_status,
                   uav_last_seen,
                   active_mission_uploads, mission_upload_events, upload_thread>>
    /\ UNCHANGED beyond_upload

\* ------------------------------------------------------------------- Next
\* Spec: one vehicle, every input of the upload handshake (mission files of
\* 0..MaxWaypoints waypoints, requests for any sequence number in Seqs in
\* both wire variants, every acknowledgment code in AckTypes).
SessionUAVs == {1}

Next ==
    \/ \E v \in SessionUAVs, n \in 0..MaxWaypoints : LoadMission(v, n)
    \/ \E v \in SessionUAVs, t \in {"MISSION_REQUEST", "MISSION_REQUEST_INT"},
          seq \in Seqs : RecvMissionRequest(v, t, seq)
    \/ \E v \in SessionUAVs, a \in AckTypes : RecvMissionAck(v, a)
    \/ \E v \in SessionUAVs : RecvTelemetry(v)
    \/ \E v \in SessionUAVs : ConnectionLost(v)
    \/ \E v \in SessionUAVs : AcquireSlot(v)
    \/ \E v \in SessionUAVs : AcquireTimeout(v)
    \/ \E v \in SessionUAVs : RegisterEvent(v)
    \/ \E v \in SessionUAVs : RegisterUpload(v)
    \/ \E v \in SessionUAVs : SendMissionCount(v)
    \/ \E v \in SessionUAVs : SendMissionCountRaises(v)
    \/ \E v \in SessionUAVs : WaitSignaled(v)
    \/ \E v \in SessionUAVs : WaitTimeout(v)
    \/ \E v \in SessionUAVs : ReportResults(v)
    \/ ReleaseSlot

Spec == Init /\ [][Next]_vars

\* SpecGate: NumUAVs vehicles competing for the upload slots.  The operator
\* requests a one-waypoint upload for a vehicle that has none in progress,
\* and a vehicle acknowledges only a mission count it was sent; a session
\* ends by an accepted or an error acknowledgment, by the handshake timeout,
\* by an exception or by the slot timeout.
CountWasSent(v) == At(v, "wait") \/ At(v, "woke")

NextGate ==
    \/ \E v \in UAVs : ~RejectedEarly(v, 1) /\ LoadMission(v, 1)
    \/ \E v \in UAVs, a \in {MAV_MISSION_ACCEPTED, 1} :
          CountWasSent(v) /\ RecvMissionAck(v, a)
    \/ \E v \in UAVs : RecvTelemetry(v)
    \/ \E v \in UAVs : AcquireSlot(v)
    \/ \E v \in UAVs : AcquireTimeout(v)
    \/ \E v \in UAVs : RegisterEvent(v)
    \/ \E v \in UAVs : RegisterUpload(v)
    \/ \E v \in UAVs : SendMissionCount(v)
    \/ \E v \in UAVs : SendMissionCountRaises(v)
    \/ \E v \in UAVs : WaitSignaled(v)
    \/ \E v \in UAVs : WaitTimeout(v)
    \/ \E v \in UAVs : ReportResults(v)
    \/ ReleaseSlot

SpecGate == Init /\ [][NextGate]_vars

\* SpecQueue: the operator has requested a one-waypoint upload for each of
\* the NumUAVs connected vehicles in quick succession, so every worker has
\* started and none has a slot yet; no further upload is requested.  Time is
\* measured: it advances only while every worker is blocked (the steps
\* between blocking calls take milliseconds), the wait for the
\* acknowledgment times out after mission_upload_timeout, and the property
\* checked with this specification includes that no acquire reaches its
\* 120 s bound, which is why the acquire's timeout is not a step here.
\* Every worker is an OS thread whose blocking calls return: weak fairness
\* on each worker's steps, on the release and on the passage of time.
InitQueue ==
    /\ telem1_connection = TRUE
    /\ discovered = UAVs
    /\ telem1_status = [v \in UAVs |-> TRUE]
    /\ active_mission_uploads = [v \in UAVs |-> PendingState]
    /\ mission_upload_events = EmptyDict
    /\ upload_semaphore = MaxConcurrent
    /\ upload_thread = [v \in UAVs |-> NewThread(1)]
    /\ releasing = 0
    /\ ret = <<>>
    /\ emitted = <<>>
    /\ tx = <<>>
    /\ telem2_connection = FALSE
    /\ InitBeyond

\* workers blocked in upload_semaphore.acquire(blocking=True, timeout=120)
SlotWaiters == {v \in DOMAIN upload_thread : At(v, "start") /\ ~SlotFree}

\* workers blocked in upload_event.wait(timeout=self.mission_upload_timeout)
AckWaiters ==
    {v \in DOMAIN upload_thread : At(v, "wait") /\ ~mission_upload_events[v]}

\* some thread can run: a worker that is not blocked, or a pending release
Runnable ==
    \/ releasing > 0
    \/ DOMAIN upload_thread # SlotWaiters \cup AckWaiters

\* the step by which time advances
Quantum == mission_upload_timeout \div 2

\* Quantum seconds pass in every blocking call; no wait outlasts its timeout
Advance ==
    /\ ~Runnable
    /\ AckWaiters # {}
    /\ \A v \in AckWaiters :
           upload_thread[v].ack_waited + Quantum <= mission_upload_timeout
    /\ upload_thread' =
           [v \in DOMAIN upload_thread |->
               IF v \in SlotWaiters
               THEN [upload_thread[v] EXCEPT !.slot_waited = @ + Quantum]
               ELSE [upload_thread[v] EXCEPT !.ack_waited = @ + Quantum]]
    /\ Quiet
    /\ UNCHANGED <<telem1_connection, discovered, telem1_status,
                   uav_last_seen,
                   active_mission_uploads, mission_upload_events,
                   upload_semaphore, releasing>>
    /\ UNCHANGED beyond_upload

\* completion_event.wait(timeout) returns False: the timeout has elapsed
WaitTimedOut(v) ==
    /\ At(v, "wait")
    /\ upload_thread[v].ack_waited >= mission_upload_timeout
    /\ WaitTimeout(v)

NextQueue ==
    \/ \E v \in UAVs, a \in {MAV_MISSION_ACCEPTED, 1} :
          CountWasSent(v) /\ RecvMissionAck(v, a)
    \/ \E v \in UAVs : AcquireSlot(v)
    \/ \E v \in UAVs : RegisterEvent(v)
    \/ \E v \in UAVs : RegisterUpload(v)
    \/ \E v \in UAVs : SendMissionCount(v)
    \/ \E v \in UAVs : SendMissionCountRaises(v)
    \/ \E v \in UAVs : WaitSignaled(v)
    \/ \E v \in UAVs : WaitTimedOut(v)
    \/ \E v \in UAVs : ReportResults(v)
    \/ ReleaseSlot
    \/ Advance

WorkerStep(v) ==
    \/ AcquireSlot(v)
    \/ RegisterEvent(v)
    \/ RegisterUpload(v)
    \/ SendMissionCount(v)
    \/ SendMissionCountRaises(v)
    \/ WaitSignaled(v)
    \/ WaitTimedOut(v)
    \/ ReportResults(v)

SpecQueue ==
    /\ InitQueue
    /\ [][NextQueue]_vars
    /\ \A v \in UAVs : WF_vars(WorkerStep(v))
    /\ WF_vars(ReleaseSlot)
    /\ WF_vars(Advance)

\* --------------------------------------------- Telem2 health (Secondary)
\* the words of a STATUSTEXT that _handle_statustext_message looks for
Keywords == {"telem2 connection", "restored", "ok", "lost"}

\* a STATUSTEXT, by the set of those words its lowered text contains
Texts == SUBSET Keywords

\* uav_telem2_status after a STATUSTEXT from v
OnStatusText(status, v, text) ==
    IF "telem2 connection" \in text
    THEN IF "restored" \in text \/ "ok" \in text
         THEN Put(status, v, TRUE)
         ELSE IF "lost" \in text THEN Put(status, v, FALSE) ELSE status
    ELSE status

\* does the STATUSTEXT count as a Telem2 status report
IsStatusReport(text) ==
    /\ "telem2 connection" \in text
    /\ "restored" \in text \/ "ok" \in text \/ "lost" \in text

\* inbound STATUSTEXT from vehicle v
RecvStatusText(v, text) ==
    /\ Telem1Seen(v)
    /\ uav_telem2_status' = OnStatusText(uav_telem2_status, v, text)
    /\ uav_telem2_last_update' =
           IF IsStatusReport(text)
           THEN Put(uav_telem2_last_update, v, now)
           ELSE uav_telem2_last_update
    /\ tx' = HomeRequest(v)
    /\ ret' = <<>>
    /\ emitted' = <<>>
    /\ UNCHANGED <<telem1_connection, upload_vars, now, telem2_connection,
                   arm_vars, safety_vars,
                   record_vars>>

\* mutant: the sweep never finds a report too old
Telem2ReportTooOldNever(v) == FALSE

\* _check_telem2_status: the last status report of v is older than the window
Telem2ReportTooOld(v) ==
    now - (IF v \in DOMAIN uav_telem2_last_update
           THEN uav_telem2_last_update[v] ELSE 0) > telem2_status_timeout

\* _check_telem2_status: one sweep of the receive loop over discovered_uavs
CheckTelem2Status ==
    /\ uav_telem2_status' =
           [v \in DOMAIN uav_telem2_status |->
               IF v \in discovered /\ Telem2ReportTooOld(v)
               THEN FALSE ELSE uav_telem2_status[v]]
    /\ Quiet
    /\ UNCHANGED <<telem1_connection, discovered, telem1_status,
                   uav_last_seen, upload_vars,
                   now, telem2_connection, uav_telem2_last_update,
                   arm_vars, safety_vars,
                   record_vars>>

\* ---------------------------------------------------- transport arbiter
\* the command dicts built by CommandInterface: a mode change (RTL = 6), a
\* COMMAND_LONG (MAV_CMD_COMPONENT_ARM_DISARM = 400), an emergency broadcast
Commands ==
    {[type |-> "set_mode", arg |-> 6],
     [type |-> "command_long", arg |-> 400],
     [type |-> "emergency_broadcast", arg |-> 0]}

\* the transmission that raises in the transport (0: none does)
Failures == 0..Telem2Repeats

\* telem1_available in send_command and should_use_telem2
Telem1Available(v) ==
    telem1_connection /\ v \in discovered /\ telem1_status[v]

get_telem2_status(v) ==
    IF v \notin discovered THEN FALSE
    ELSE IF v \in DOMAIN uav_telem2_status THEN uav_telem2_status[v]
         ELSE FALSE

should_use_telem2(v) ==
    /\ telem2_connection
    /\ ~Telem1Available(v)
    /\ get_telem2_status(v)

\* the command types send_command_telem1 / send_command_telem2 have a branch for
Supported(cmd) == cmd.type \in {"set_mode", "command_long"}

\* send_command_telem1: the message handed to Telem1
Telem1Message(v, cmd) ==
    IF cmd.type = "set_mode"
    THEN Msg("telem1", "SET_MODE", v, cmd.arg)
    ELSE Msg("telem1", "COMMAND_LONG", v, cmd.arg)

\* send_command_telem2: the message handed to Telem2 (a mode change goes as
\* MAV_CMD_DO_SET_MODE = 176)
Telem2Message(v, cmd) ==
    IF cmd.type = "set_mode"
    THEN Msg("telem2", "COMMAND_LONG", v, 176)
    ELSE Msg("telem2", "COMMAND_LONG", v, cmd.arg)

\* send_command_telem1: messages transmitted and truth value of the result
\* (a command type without a branch falls off the end: None)
send_command_telem1(v, cmd, fail_at) ==
    IF ~telem1_connection \/ v \notin discovered
    THEN [sent |-> <<>>, result |-> FALSE]
    ELSE IF Supported(cmd) /\ fail_at # 1
         THEN [sent |-> <<Telem1Message(v, cmd)>>, result |-> TRUE]
         ELSE [sent |-> <<>>, result |-> FALSE]

\* send_command_telem2: the loop stops at the transmission that raises
send_command_telem2(v, cmd, fail_at) ==
    IF ~telem2_connection \/ v \notin discovered \/ ~Supported(cmd)
    THEN [sent |-> <<>>, result |-> FALSE]
    ELSE LET count == IF fail_at = 0 THEN Telem2Repeats ELSE fail_at - 1 IN
         [sent |-> [i \in 1..count |-> Telem2Message(v, cmd)],
          result |-> fail_at = 0]

send_command(v, cmd, fail_at) ==
    IF v \notin discovered
    THEN [sent |-> <<>>, result |-> FALSE]
    ELSE IF Telem1Available(v)
         THEN send_command_telem1(v, cmd, fail_at)
         ELSE IF should_use_telem2(v)
              THEN send_command_telem2(v, cmd, fail_at)
              ELSE [sent |-> <<>>, result |-> FALSE]

\* MAVLinkManager.send_command(uav_id, command) called on the command thread
SendCommand(v, cmd, fail_at) ==
    /\ tx' = send_command(v, cmd, fail_at).sent
    /\ ret' = <<Returned("send_command", send_command(v, cmd, fail_at).result)>>
    /\ emitted' = <<>>
    /\ UNCHANGED <<telem1_connection, discovered, telem1_status,
                   uav_last_seen, upload_vars,
                   beyond_upload>>

\* one second passes
Tick ==
    /\ now' = now + 1
    /\ Quiet
    /\ UNCHANGED <<telem1_connection, discovered, telem1_status,
                   uav_last_seen, upload_vars,
                   link_vars, arm_vars, safety_vars,
                   record_vars>>

\* SpecRoute: the upload engine of one vehicle with both channels open or
\* closed and Telem2 status reports arriving.  Time stands still.
InitRoute ==
    /\ telem1_connection \in BOOLEAN
    /\ telem2_connection \in BOOLEAN
    /\ discovered = {}
    /\ telem1_status = [v \in UAVs |-> FALSE]
    /\ InitUploadEngine
    /\ InitBeyond

NextRoute ==
    \/ Next
    \/ \E v \in SessionUAVs, text \in Texts : RecvStatusText(v, text)

SpecRoute == InitRoute /\ [][NextRoute]_vars

\* SpecLink: the arbiter and the Telem2 health of one vehicle with the
\* clock running for LinkHorizon seconds; no upload is requested.

NextLink ==
    \/ now < StartTime + LinkHorizon /\ Tick
    \/ \E v \in SessionUAVs : RecvTelemetry(v)
    \/ \E v \in SessionUAVs : ConnectionLost(v)
    \/ \E v \in SessionUAVs, text \in Texts : RecvStatusText(v, text)
    \/ CheckTelem2Status
    \/ \E v \in SessionUAVs, cmd \in Commands, fail_at \in Failures :
          SendCommand(v, cmd, fail_at)

SpecLink == InitRoute /\ [][NextLink]_vars

\* ------------------------------------- optimistic arming (UAVState markers)
\* a marker is set and current_time lies inside its window
Pending(marker, current_time) ==
    marker # NoTime /\ current_time - marker[1] < command_timeout

\* a marker is set and its window has passed
Expired(marker, current_time) ==
    marker # NoTime /\ current_time - marker[1] >= command_timeout

\* mutant: the heartbeat is trusted whatever is pending
ProtectedArmedTrusting(v, reported, current_time) == reported

\* update_telemetry_protected: kwargs['armed'] after the override
ProtectedArmed(v, reported, current_time) ==
    IF Pending(pending_arm_command[v], current_time) THEN TRUE
    ELSE IF Pending(pending_disarm_command[v], current_time) THEN FALSE
         ELSE reported

\* mutant: the arm request leaves the disarm marker alone
DisarmMarkerAfterArmKept(v) == pending_disarm_command[v]

\* set_pending_arm_command: the disarm marker afterwards
DisarmMarkerAfterArm(v) == NoTime

\* the COMMAND_LONG built by arm_uav and disarm_uav
\* (MAV_CMD_COMPONENT_ARM_DISARM = 400; param1, 1 or 0, is not carried)
ArmCommand == [type |-> "command_long", arg |-> 400]

\* arm_uav(uav_id) on the command thread: the optimistic update, then the
\* command handed to send_command by App._handle_command_request
RequestArm(v, fail_at) ==
    /\ IF v \notin discovered
       THEN /\ ret' = <<Returned("arm_uav", FALSE)>>
            /\ tx' = <<>>
            /\ UNCHANGED <<armed, pending_arm_command, pending_disarm_command>>
       ELSE /\ pending_arm_command' =
                   [pending_arm_command EXCEPT ![v] = <<now>>]
            /\ pending_disarm_command' =
                   [pending_disarm_command EXCEPT ![v] = DisarmMarkerAfterArm(v)]
            /\ armed' = [armed EXCEPT ![v] = TRUE]
            /\ tx' = send_command(v, ArmCommand, fail_at).sent
            /\ ret' = <<Returned("arm_uav", TRUE)>>
    /\ emitted' = <<>>
    /\ UNCHANGED <<telem1_connection, discovered, telem1_status,
                   uav_last_seen, upload_vars,
                   now, link_vars, heartbeat, safety_vars,
                   record_vars>>

\* disarm_uav(uav_id) on the command thread
RequestDisarm(v, fail_at) ==
    /\ IF v \notin discovered
       THEN /\ ret' = <<Returned("disarm_uav", FALSE)>>
            /\ tx' = <<>>
            /\ UNCHANGED <<armed, pending_arm_command, pending_disarm_command>>
       ELSE /\ pending_disarm_command' =
                   [pending_disarm_command EXCEPT ![v] = <<now>>]
            /\ pending_arm_command' =
                   [pending_arm_command EXCEPT ![v] = NoTime]
            /\ armed' = [armed EXCEPT ![v] = FALSE]
            /\ tx' = send_command(v, ArmCommand, fail_at).sent
            /\ ret' = <<Returned("disarm_uav", TRUE)>>
    /\ emitted' = <<>>
    /\ UNCHANGED <<telem1_connection, discovered, telem1_status,
                   uav_last_seen, upload_vars,
                   now, link_vars, heartbeat, safety_vars,
                   record_vars>>

\* receive loop, HEARTBEAT from v, first part: update_telemetry_protected
\* reads the clock and the markers, decides kwargs['armed'] and clears the
\* markers whose window has passed.  UAVState has no lock, so the command
\* thread can run before the second part.
HeartbeatCheck(v, reported) ==
    /\ heartbeat = EmptyDict
    /\ Telem1Seen(v)
    /\ heartbeat' = Put(heartbeat, v,
                        [reported |-> reported,
                         armed |-> ProtectedArmed(v, reported, now)])
    /\ pending_arm_command' =
           [pending_arm_command EXCEPT
               ![v] = IF Expired(@, now) THEN NoTime ELSE @]
    /\ pending_disarm_command' =
           [pending_disarm_command EXCEPT
               ![v] = IF Expired(@, now) THEN NoTime ELSE @]
    /\ tx' = HomeRequest(v)
    /\ ret' = <<>>
    /\ emitted' = <<>>
    /\ UNCHANGED <<telem1_connection, upload_vars, now, link_vars, armed,
                   safety_vars,
                   record_vars>>

\* receive loop, HEARTBEAT from v, second part: update_telemetry stores the
\* decided value.  The heartbeat repeats the stored mode and no mission
\* timer is running, so the timer logic that follows changes nothing
\* (RecvHeartbeat has the heartbeats that change the mode).
HeartbeatApply(v) ==
    /\ v \in DOMAIN heartbeat
    /\ armed' = [armed EXCEPT ![v] = heartbeat[v].armed]
    /\ last_update' = [last_update EXCEPT ![v] = <<now>>]
    /\ home' = [home EXCEPT
                   ![v] = update_home_position_if_needed(
                              @, gps_fix_type[v], position[v])]
    /\ heartbeat' = Del(heartbeat, v)
    /\ Quiet
    /\ UNCHANGED <<telem1_connection, discovered, telem1_status,
                   uav_last_seen, upload_vars,
                   now, link_vars, pending_arm_command, pending_disarm_command,
                   battery_status, last_alert_time, alert_history,
                   mission_vars, gps_fix_type, position, timer_vars,
                   thread_vars>>

\* SpecArm: one vehicle, arm and disarm requests with every transport
\* outcome, heartbeats reporting either value, Telem1 silence; the clock runs
\* for ArmHorizon seconds and stands still while a heartbeat is in progress.
NextArm ==
    \/ now < StartTime + ArmHorizon /\ heartbeat = EmptyDict /\ Tick
    \/ \E v \in SessionUAVs, fail_at \in Failures : RequestArm(v, fail_at)
    \/ \E v \in SessionUAVs, fail_at \in Failures : RequestDisarm(v, fail_at)
    \/ \E v \in SessionUAVs, reported \in BOOLEAN : HeartbeatCheck(v, reported)
    \/ \E v \in SessionUAVs : HeartbeatApply(v)
    \/ \E v \in SessionUAVs : ConnectionLost(v)

SpecArm == Init /\ [][NextArm]_vars

\* ------------------------------------------------------- safety monitor
\* SYS_STATUS.battery_remaining values: one in the emergency tier, one in
\* the critical tier, two in the warning tier, one above it
BatteryReadings ==
    {battery_emergency_threshold, battery_critical_threshold,
     battery_warning_threshold - 5, battery_warning_threshold,
     battery_warning_threshold + 1}

\* inbound SYS_STATUS from vehicle v
RecvSysStatus(v, reading) ==
    /\ Telem1Seen(v)
    /\ battery_status' = [battery_status EXCEPT ![v] = reading]
    /\ last_update' = [last_update EXCEPT ![v] = <<now>>]
    /\ home' = [home EXCEPT
                   ![v] = update_home_position_if_needed(
                              @, gps_fix_type[v], position[v])]
    /\ tx' = HomeRequest(v)
    /\ ret' = <<>>
    /\ emitted' = <<>>
    /\ UNCHANGED <<telem1_connection, upload_vars, now, link_vars, arm_vars,
                   last_alert_time, alert_history, mission_vars,
                   gps_fix_type, position, timer_vars,
                   thread_vars>>

\* _monitor_battery: the alert kind and level the reading calls for
BatteryCheck(reading) ==
    IF reading <= battery_emergency_threshold
    THEN <<[kind |-> "critical_battery", level |-> "emergency"]>>
    ELSE IF reading <= battery_critical_threshold
         THEN <<[kind |-> "critical_battery", level |-> "critical"]>>
         ELSE IF reading <= battery_warning_threshold
              THEN <<[kind |-> "low_battery", level |-> "warning"]>>
              ELSE <<>>

\* self.last_alert_time[uav_id] (created empty at the vehicle's first tick)
LastAlertTimes(v) ==
    IF v \in DOMAIN last_alert_time THEN last_alert_time[v] ELSE EmptyDict

\* mutant: an alert exactly one cooldown after the last one is sent
should_send_alert_at_cooldown(v, kind, current_time) ==
    current_time - (IF kind \in DOMAIN LastAlertTimes(v)
                    THEN LastAlertTimes(v)[kind] ELSE 0) >= alert_cooldown

\* _should_send_alert
should_send_alert(v, kind, current_time) ==
    current_time - (IF kind \in DOMAIN LastAlertTimes(v)
                    THEN LastAlertTimes(v)[kind] ELSE 0) > alert_cooldown

\* the alerts _monitor_battery sends for v at current_time
BatteryAlerts(v, current_time) ==
    LET wanted == BatteryCheck(battery_status[v]) IN
    IF wanted # <<>> /\ should_send_alert(v, wanted[1].kind, current_time)
    THEN <<[timestamp |-> current_time, alert_type |-> wanted[1].kind,
            reading |-> battery_status[v], safety_level |-> wanted[1].level]>>
    ELSE <<>>

\* _monitor_communication: seconds since the vehicle's last telemetry
\* update (nothing is checked before the first update)
Silence(v, current_time) ==
    IF last_update[v] = NoTime THEN 0 ELSE current_time - last_update[v][1]

\* the alerts _monitor_communication sends for v at current_time
CommAlerts(v, current_time) ==
    IF /\ Silence(v, current_time) > communication_timeout
       /\ should_send_alert(v, "comm_loss", current_time)
    THEN <<[timestamp |-> current_time, alert_type |-> "comm_loss",
            reading |-> Silence(v, current_time), safety_level |-> "critical"]>>
    ELSE <<>>

\* the alerts one firing sends for v, in the order of the checks
TickAlerts(v, current_time) ==
    BatteryAlerts(v, current_time) \o CommAlerts(v, current_time)

\* a signal of the safety monitor that App has a handler for
Triggered(signal, v) == [signal |-> signal, uav |-> v]

\* emergency_land_triggered, emitted with the emergency-level battery alert
LandSignals(v, current_time) ==
    IF /\ BatteryAlerts(v, current_time) # <<>>
       /\ BatteryAlerts(v, current_time)[1].safety_level = "emergency"
    THEN <<Triggered("emergency_land_triggered", v)>>
    ELSE <<>>

\* emergency_rtl_triggered, emitted with the comm-loss alert when the
\* silence is longer than twice the timeout
RtlSignals(v, current_time) ==
    IF /\ CommAlerts(v, current_time) # <<>>
       /\ Silence(v, current_time) > 2 * communication_timeout
    THEN <<Triggered("emergency_rtl_triggered", v)>>
    ELSE <<>>

\* the mode changes of the emergency handlers (LAND = 9, RTL = 6)
LandCommand == [type |-> "set_mode", arg |-> 9]
RtlCommand == [type |-> "set_mode", arg |-> 6]

\* App._handle_emergency_land / _handle_emergency_rtl for one vehicle: the
\* mode change handed to send_command
EmergencySends(v, current_time, fail_at) ==
    (IF LandSignals(v, current_time) # <<>>
     THEN send_command(v, LandCommand, fail_at).sent ELSE <<>>)
    \o (IF RtlSignals(v, current_time) # <<>>
        THEN send_command(v, RtlCommand, fail_at).sent ELSE <<>>)

\* the signals and the transmissions of one firing, vehicles taken in order
RECURSIVE AllSignals(_, _)
AllSignals(n, current_time) ==
    IF n = 0 THEN <<>>
    ELSE AllSignals(n - 1, current_time)
         \o (IF n \in discovered
             THEN LandSignals(n, current_time) \o RtlSignals(n, current_time)
             ELSE <<>>)

RECURSIVE AllSends(_, _, _)
AllSends(n, current_time, fail_at) ==
    IF n = 0 THEN <<>>
    ELSE AllSends(n - 1, current_time, fail_at)
         \o (IF n \in discovered
             THEN EmergencySends(n, current_time, fail_at)
             ELSE <<>>)

\* mutant: sending an alert leaves last_alert_time as it was
AfterSendForgets(v, sent) == LastAlertTimes(v)

\* _send_alert: last_alert_time[uav_id] after the alerts of this tick
AfterSend(v, sent) ==
    [kind \in DOMAIN LastAlertTimes(v)
                \cup {sent[i].alert_type : i \in DOMAIN sent} |->
        IF \E i \in DOMAIN sent : sent[i].alert_type = kind
        THEN sent[CHOOSE i \in DOMAIN sent : sent[i].alert_type = kind].timestamp
        ELSE LastAlertTimes(v)[kind]]

\* _monitor_all_uavs: the 1 Hz timer fires, lag seconds after its last
\* firing, and the checks run over all known vehicles with one current_time;
\* the emergency signals are handled in the same call
MonitorAllUavs(lag) ==
    /\ now' = now + lag
    /\ last_alert_time' =
           [v \in DOMAIN last_alert_time \cup discovered |->
               IF v \in discovered
               THEN AfterSend(v, TickAlerts(v, now'))
               ELSE last_alert_time[v]]
    /\ alert_history' =
           [v \in UAVs |->
               IF v \in discovered
               THEN alert_history[v] \o TickAlerts(v, now')
               ELSE alert_history[v]]
    /\ emitted' = AllSignals(NumUAVs, now')
    /\ \E fail_at \in Failures : tx' = AllSends(NumUAVs, now', fail_at)
    /\ ret' = <<>>
    /\ UNCHANGED <<telem1_connection, discovered, telem1_status,
                   uav_last_seen, upload_vars,
                   link_vars, arm_vars, battery_status, last_update,
                   record_vars>>

\* every known vehicle has sent telemetry since the clock last moved
AllReporting == \A v \in discovered : last_update[v] = <<now>>

\* a SYS_STATUS reading that calls for no battery alert
HealthyReadings == {r \in BatteryReadings : r > battery_warning_threshold}

\* SpecSafety: one vehicle that reports its battery between any two firings
\* of the monitor, with readings that change freely; the firings come
\* 1..MaxTimerLag seconds apart and the clock runs for SafetyHorizon seconds.
NextSafety ==
    \/ \E v \in SessionUAVs, reading \in BatteryReadings :
          RecvSysStatus(v, reading)
    \/ \E lag \in 1..MaxTimerLag :
          /\ now + lag <= StartTime + SafetyHorizon
          /\ AllReporting
          /\ MonitorAllUavs(lag)

SpecSafety == Init /\ [][NextSafety]_vars

\* SpecComm: one vehicle with a healthy battery that may fall silent at any
\* time and may be marked disconnected; the clock runs for CommHorizon
\* seconds.
NextComm ==
    \/ \E v \in SessionUAVs, reading \in HealthyReadings :
          RecvSysStatus(v, reading)
    \/ \E v \in SessionUAVs : ConnectionLost(v)
    \/ \E lag \in 1..MaxTimerLag :
          now + lag <= StartTime + CommHorizon /\ MonitorAllUavs(lag)

SpecComm == Init /\ [][NextComm]_vars

\* ---------------------------------------------------- emergency broadcast
EmergencyTypes == {"RTL", "LAND", "DISARM"}

\* broadcast_emergency_command: the command built for each vehicle
EmergencyCommand(command_type) ==
    IF command_type = "RTL" THEN RtlCommand
    ELSE IF command_type = "LAND" THEN LandCommand
         ELSE ArmCommand

\* broadcast_emergency_command: the transmissions, vehicles taken in order,
\* and the number of vehicles whose send returned True
RECURSIVE BroadcastSends(_, _, _)
BroadcastSends(n, cmd, fail_at) ==
    IF n = 0 THEN <<>>
    ELSE BroadcastSends(n - 1, cmd, fail_at)
         \o (IF n \in discovered
             THEN send_command_telem2(n, cmd, fail_at).sent ELSE <<>>)

success_count(cmd, fail_at) ==
    Cardinality({v \in discovered : send_command_telem2(v, cmd, fail_at).result})

\* MAVLinkManager.broadcast_emergency_command(command_type), called by the
\* App handlers of an emergency whose target is "ALL"
BroadcastEmergency(command_type, fail_at) ==
    /\ IF ~telem2_connection
       THEN /\ tx' = <<>>
            /\ ret' = <<Returned("broadcast_emergency_command", FALSE)>>
       ELSE /\ tx' = BroadcastSends(NumUAVs, EmergencyCommand(command_type),
                                    fail_at)
            /\ ret' = <<Returned("broadcast_emergency_command",
                                 success_count(EmergencyCommand(command_type),
                                               fail_at) > 0)>>
    /\ emitted' = <<>>
    /\ UNCHANGED <<telem1_connection, discovered, telem1_status,
                   uav_last_seen, upload_vars,
                   beyond_upload>>

\* the dict emergency_rtl_all / emergency_land_all / emergency_disarm_all emit
BroadcastRequest == [type |-> "emergency_broadcast", arg |-> 0]

RECURSIVE RequestSends(_, _, _)
RequestSends(n, cmd, fail_at) ==
    IF n = 0 THEN <<>>
    ELSE RequestSends(n - 1, cmd, fail_at)
         \o (IF n \in discovered
             THEN send_command(n, cmd, fail_at).sent ELSE <<>>)

\* CommandInterface.emergency_rtl_all (and _land_all, _disarm_all): the
\* request is emitted for every known vehicle and App hands each one to
\* send_command
EmergencyAll(command_type, fail_at) ==
    /\ tx' = RequestSends(NumUAVs, BroadcastRequest, fail_at)
    /\ ret' = <<Returned("emergency_all", TRUE)>>
    /\ emitted' = <<>>
    /\ UNCHANGED <<telem1_connection, discovered, telem1_status,
                   uav_last_seen, upload_vars,
                   beyond_upload>>

\* SpecBroadcast: two vehicles, each connected on Telem1 or not and with
\* Telem2 health reported or not, both channels open or closed, and an
\* emergency for all of either origin.  Time stands still.
BroadcastUAVs == {1, 2}

NextBroadcast ==
    \/ \E v \in BroadcastUAVs : RecvTelemetry(v)
    \/ \E v \in BroadcastUAVs : ConnectionLost(v)
    \/ \E v \in BroadcastUAVs, text \in Texts : RecvStatusText(v, text)
    \/ \E command_type \in EmergencyTypes, fail_at \in Failures :
          BroadcastEmergency(command_type, fail_at)
    \/ \E command_type \in EmergencyTypes, fail_at \in Failures :
          EmergencyAll(command_type, fail_at)

SpecBroadcast == InitRoute /\ [][NextBroadcast]_vars

\* ------------------------------------------- mission files, load and resume
\* a waypoint line of a mission file: its first column (the stored index)
\* and the rest of the line, told apart by the number of the line
WaypointIndex == 0..MaxIndex

IndexLists ==
    {s \in UNION {[1..n -> WaypointIndex] : n \in 0..(MaxIndex + 1)} :
        \A i, j \in DOMAIN s : i # j => s[i] # s[j]}

\* the waypoint lines below the header of the file that lists these indices:
\* the first column, the rest of the line, and whether the line has its
\* twelve numeric fields
MissionFile(indices) ==
    [i \in DOMAIN indices |->
        [index |-> indices[i], rest |-> i, complete |-> TRUE]]

\* the mission files an operator may pick; every index is written once
MissionFiles == {MissionFile(s) : s \in IndexLists}

\* the files an operator resumes from: the one the mission was loaded from,
\* whole or cut short by a line
ResumeFiles(v) ==
    {MissionFile(original_waypoint_indices[v]),
     MissionFile(SubSeq(original_waypoint_indices[v], 1,
                        Len(original_waypoint_indices[v]) - 1))}

\* _parse_waypoint_indices: the first column of every line, in file order
_parse_waypoint_indices(file) == [i \in DOMAIN file |-> file[i].index]

IsComplete(line) == line.complete

\* MAVLinkManager._parse_mission_file: the lines with twelve numeric fields,
\* in file order; the others are skipped
_parse_mission_file(file) == SelectSeq(file, IsComplete)

\* mission files in which any line may be short of fields or hold a field
\* that is no number after its first column
RoughFiles ==
    {[i \in DOMAIN f |-> [f[i] EXCEPT !.complete = i \notin short]] :
        f \in MissionFiles, short \in SUBSET (1..(MaxIndex + 1))}

\* mutant: a fresh load keeps the reached list of the mission before
ReachedAfterLoadKept(v) == reached_waypoint_indices[v]

\* App.load_mission line 247: the reached list of a freshly loaded mission
ReachedAfterLoad(v) == <<>>

\* App.load_mission(uav_id, file): record the indices, then start the upload
AppLoadMission(v, file) ==
    /\ IF _parse_waypoint_indices(file) # <<>> /\ v \in discovered
       THEN /\ original_waypoint_indices' =
                   [original_waypoint_indices EXCEPT
                        ![v] = _parse_waypoint_indices(file)]
            /\ uploaded_waypoint_indices' =
                   [uploaded_waypoint_indices EXCEPT
                        ![v] = _parse_waypoint_indices(file)]
            /\ reached_waypoint_indices' =
                   [reached_waypoint_indices EXCEPT
                        ![v] = ReachedAfterLoad(v)]
       ELSE UNCHANGED <<original_waypoint_indices, uploaded_waypoint_indices,
                        reached_waypoint_indices>>
    /\ load_mission(v, Len(_parse_mission_file(file)))
    /\ tx' = MissionClear(v, Len(_parse_mission_file(file)))
    /\ emitted' = <<>>
    /\ UNCHANGED <<telem1_connection, discovered, telem1_status,
                   uav_last_seen, mission_upload_events, upload_semaphore,
                   releasing, now, link_vars, arm_vars, safety_vars,
                   fix_vars, timer_vars,
                   thread_vars>>

Contains(s, x) == \E i \in DOMAIN s : s[i] = x

\* list.index(x), counted from 1
IndexOf(s, x) ==
    CHOOSE i \in DOMAIN s : s[i] = x /\ \A j \in 1..(i - 1) : s[j] # x

IsMissionWaypoint(wp_idx) == wp_idx # 0

\* mutant: the tail starts after the resume waypoint
TailAfter(original, resume_from) ==
    SubSeq(original, IndexOf(original, resume_from) + 1, Len(original))

\* range(resume_from_idx, len(original)): the resume waypoint and all after
TailFrom(original, resume_from) ==
    SubSeq(original, IndexOf(original, resume_from), Len(original))

\* remaining_wp_indices: HOME if the mission has it, then the tail without 0
remaining_wp_indices(original, resume_from) ==
    (IF Contains(original, 0) THEN <<0>> ELSE <<>>)
        \o SelectSeq(TailFrom(original, resume_from), IsMissionWaypoint)

\* waypoint_dict: stored index -> line (a later line replaces an earlier)
waypoint_dict(file) ==
    [k \in {file[i].index : i \in DOMAIN file} |->
        file[CHOOSE i \in DOMAIN file :
                /\ file[i].index = k
                /\ \A j \in DOMAIN file : j > i => file[j].index # k]]

\* remaining_waypoints after the first n entries of the index list: each
\* line found in the file, its first column replaced by the position
RECURSIVE remaining_waypoints(_, _, _)
remaining_waypoints(file, indices, n) ==
    IF n = 0
    THEN <<>>
    ELSE remaining_waypoints(file, indices, n - 1) \o
         (IF indices[n] \in DOMAIN waypoint_dict(file)
          THEN <<[waypoint_dict(file)[indices[n]] EXCEPT !.index = n - 1]>>
          ELSE <<>>)

\* the lines of the temporary resume file as written below its header: the
\* first column and the rest of each (the file is removed before the call
\* returns)
Written(lines) ==
    [k \in DOMAIN lines |->
        Msg("temp_file", "WAYPOINT", lines[k].index, lines[k].rest)]

\* the early returns of resume planning: unknown vehicle, no original
\* indices, resume waypoint not in them, file without a waypoint line,
\* nothing left but HOME
ResumeRefused(v, file, resume_from) ==
    \/ v \notin discovered
    \/ original_waypoint_indices[v] = <<>>
    \/ ~Contains(original_waypoint_indices[v], resume_from)
    \/ Len(file) = 0
    \/ Len(remaining_wp_indices(original_waypoint_indices[v],
                                resume_from)) <= 1

\* the body shared by resume_mission and resume_mission_from_waypoint
Resume(v, file, resume_from) ==
    /\ IF ResumeRefused(v, file, resume_from)
       THEN /\ ret' = <<Returned("resume_mission", FALSE)>>
            /\ tx' = <<>>
            /\ UNCHANGED <<uploaded_waypoint_indices,
                           active_mission_uploads, upload_thread>>
       ELSE LET indices == remaining_wp_indices(
                               original_waypoint_indices[v], resume_from)
                lines == remaining_waypoints(file, indices, Len(indices))
            IN /\ uploaded_waypoint_indices' =
                      [uploaded_waypoint_indices EXCEPT ![v] = indices]
               /\ tx' = Written(lines)
                            \o MissionClear(v, Len(_parse_mission_file(lines)))
               /\ load_mission(v, Len(_parse_mission_file(lines)))
    /\ emitted' = <<>>
    /\ UNCHANGED <<telem1_connection, discovered, telem1_status,
                   uav_last_seen, mission_upload_events, upload_semaphore,
                   releasing, now, link_vars, arm_vars, safety_vars,
                   original_waypoint_indices, reached_waypoint_indices,
                   fix_vars, timer_vars,
                   thread_vars>>

\* App.resume_mission_from_waypoint(uav_id, file, resume_from_waypoint)
ResumeMissionFromWaypoint(v, file, resume_from) == Resume(v, file, resume_from)

\* UAVState.get_last_completed_waypoint: the highest index reached, -1 if
\* none (the list is kept sorted)
get_last_completed_waypoint(v) ==
    IF reached_waypoint_indices[v] = <<>>
    THEN -1
    ELSE reached_waypoint_indices[v][Len(reached_waypoint_indices[v])]

\* App.resume_mission(uav_id, file): resume from the last completed waypoint
ResumeMission(v, file) == Resume(v, file, get_last_completed_waypoint(v))

\* list.append(x); list.sort() on a sorted list without x
SortedInsert(s, x) ==
    LET IsBelow(y) == y < x
        IsAbove(y) == y > x
    IN SelectSeq(s, IsBelow) \o <<x>> \o SelectSeq(s, IsAbove)

\* receive loop, MISSION_ITEM_REACHED(seq) from v: seq counts the items of
\* the mission now in the vehicle, from 0
RecvItemReached(v, seq) ==
    /\ Telem1Seen(v)
    /\ reached_waypoint_indices' =
           IF /\ seq < Len(uploaded_waypoint_indices[v])
              /\ ~Contains(reached_waypoint_indices[v],
                           uploaded_waypoint_indices[v][seq + 1])
           THEN [reached_waypoint_indices EXCEPT
                    ![v] = SortedInsert(@, uploaded_waypoint_indices[v][seq + 1])]
           ELSE reached_waypoint_indices
    /\ tx' = HomeRequest(v)
    /\ ret' = <<>>
    /\ emitted' = <<>>
    /\ UNCHANGED <<telem1_connection, upload_vars, now, link_vars, arm_vars,
                   safety_vars, original_waypoint_indices,
                   uploaded_waypoint_indices, fix_vars, timer_vars,
                   thread_vars>>

\* SpecResume: one vehicle whose operator loads mission files and resumes
\* from the last completed or from a chosen waypoint, while the vehicle
\* reports items reached and drops off Telem1.  The upload worker is not
\* scheduled: the first upload that starts stays pending.
NextResume ==
    \/ \E v \in SessionUAVs : RecvTelemetry(v)
    \/ \E v \in SessionUAVs, file \in MissionFiles : AppLoadMission(v, file)
    \/ \E v \in SessionUAVs : \E file \in ResumeFiles(v), wp \in WaypointIndex :
          ResumeMissionFromWaypoint(v, file, wp)
    \/ \E v \in SessionUAVs : \E file \in ResumeFiles(v) :
          ResumeMission(v, file)
    \/ \E v \in SessionUAVs, seq \in WaypointIndex : RecvItemReached(v, seq)
    \/ \E v \in SessionUAVs : ConnectionLost(v)

SpecResume == Init /\ [][NextResume]_vars

\* SpecPlan: the resume planner on every mission of IndexLists.  It starts
\* where SpecResume stands once the vehicle was found, dropped off, had a
\* mission file loaded and was heard again: the indices are recorded and no
\* upload is in progress.
InitPlan ==
    /\ telem1_connection = TRUE
    /\ telem2_connection = FALSE
    /\ discovered = SessionUAVs
    /\ telem1_status = [v \in UAVs |-> v \in SessionUAVs]
    /\ uav_last_seen = [v \in SessionUAVs |-> StartTime]
    /\ InitUploadEngine
    /\ InitRecords
    /\ \E s \in IndexLists \ {<<>>} :
          /\ original_waypoint_indices =
                 [v \in UAVs |-> IF v \in SessionUAVs THEN s ELSE <<>>]
          /\ uploaded_waypoint_indices = original_waypoint_indices
    /\ reached_waypoint_indices = [v \in UAVs |-> <<>>]

NextPlan ==
    \/ \E v \in SessionUAVs : \E file \in ResumeFiles(v), wp \in WaypointIndex :
          ResumeMissionFromWaypoint(v, file, wp)
    \/ \E v \in SessionUAVs : \E file \in ResumeFiles(v) :
          ResumeMission(v, file)
    \/ \E v \in SessionUAVs, seq \in WaypointIndex : RecvItemReached(v, seq)

SpecPlan == InitPlan /\ [][NextPlan]_vars

\* the states SpecPlan starts in
PlanStart ==
    /\ telem1_connection
    /\ discovered = SessionUAVs
    /\ \A v \in SessionUAVs :
          /\ telem1_status[v]
          /\ original_waypoint_indices[v] # <<>>
          /\ uploaded_waypoint_indices[v] = original_waypoint_indices[v]
          /\ reached_waypoint_indices[v] = <<>>
    /\ active_mission_uploads = EmptyDict
    /\ upload_thread = EmptyDict
    /\ ret = <<>> /\ tx = <<>> /\ emitted = <<>>

\* ------------------------------------------------- position and home
\* receive loop, GLOBAL_POSITION_INT from v
RecvGlobalPosition(v, place) ==
    /\ Telem1Seen(v)
    /\ position' = [position EXCEPT ![v] = place]
    /\ last_update' = [last_update EXCEPT ![v] = <<now>>]
    /\ home' = [home EXCEPT
                   ![v] = update_home_position_if_needed(
                              @, gps_fix_type[v], place)]
    /\ tx' = HomeRequest(v)
    /\ ret' = <<>>
    /\ emitted' = <<>>
    /\ UNCHANGED <<telem1_connection, upload_vars, now, link_vars, arm_vars,
                   battery_status, last_alert_time, alert_history,
                   mission_vars, gps_fix_type, timer_vars,
                   thread_vars>>

\* receive loop, GPS_RAW_INT from v
RecvGpsRaw(v, fix) ==
    /\ Telem1Seen(v)
    /\ gps_fix_type' = [gps_fix_type EXCEPT ![v] = fix]
    /\ last_update' = [last_update EXCEPT ![v] = <<now>>]
    /\ home' = [home EXCEPT
                   ![v] = update_home_position_if_needed(
                              @, fix, position[v])]
    /\ tx' = HomeRequest(v)
    /\ ret' = <<>>
    /\ emitted' = <<>>
    /\ UNCHANGED <<telem1_connection, upload_vars, now, link_vars, arm_vars,
                   battery_status, last_alert_time, alert_history,
                   mission_vars, position, timer_vars,
                   thread_vars>>

\* receive loop, HOME_POSITION from v: taken over when it differs
RecvHomePosition(v, place) ==
    /\ Telem1Seen(v)
    /\ home' = IF home[v] # place
               THEN [home EXCEPT ![v] = place]
               ELSE home
    /\ tx' = HomeRequest(v)
    /\ ret' = <<>>
    /\ emitted' = <<>>
    /\ UNCHANGED <<telem1_connection, upload_vars, now, link_vars, arm_vars,
                   safety_vars, mission_vars, gps_fix_type, position,
                   timer_vars,
                   thread_vars>>

\* receive loop, GPS_GLOBAL_ORIGIN from v: taken over when no home is set
RecvGlobalOrigin(v, place) ==
    /\ Telem1Seen(v)
    /\ home' = IF home[v] = NoPlace
               THEN [home EXCEPT ![v] = place]
               ELSE home
    /\ tx' = HomeRequest(v)
    /\ ret' = <<>>
    /\ emitted' = <<>>
    /\ UNCHANGED <<telem1_connection, upload_vars, now, link_vars, arm_vars,
                   safety_vars, mission_vars, gps_fix_type, position,
                   timer_vars,
                   thread_vars>>

\* SpecHome: one vehicle sending fixes, positions, home positions and
\* origins, battery reports, and dropping off Telem1.  Time stands still.
NextHome ==
    \/ \E v \in SessionUAVs, fix \in FixTypes : RecvGpsRaw(v, fix)
    \/ \E v \in SessionUAVs, place \in Places : RecvGlobalPosition(v, place)
    \/ \E v \in SessionUAVs, place \in Places : RecvHomePosition(v, place)
    \/ \E v \in SessionUAVs, place \in Places : RecvGlobalOrigin(v, place)
    \/ \E v \in SessionUAVs, reading \in HealthyReadings :
          RecvSysStatus(v, reading)
    \/ \E v \in SessionUAVs : ConnectionLost(v)

SpecHome == Init /\ [][NextHome]_vars

\* ------------------------------------------------- connection monitoring
\* uav_last_seen.get(system_id, 0)
LastSeen(v) == IF v \in DOMAIN uav_last_seen THEN uav_last_seen[v] ELSE 0

\* _check_uav_connection_status: is v found silent for too long
TimedOut(v) == now - LastSeen(v) > uav_connection_timeout

\* mutant: a vehicle found silent keeps its home position
HomeAfterLossKept(v) == home[v]

\* line 195: the home of a vehicle marked disconnected
HomeAfterLoss(v) == NoPlace

\* the vehicles a sweep marks disconnected
Disconnects(v) == v \in discovered /\ TimedOut(v) /\ telem1_status[v]

\* _check_uav_connection_status, run by every turn of the receive loop
CheckUavConnectionStatus ==
    /\ telem1_status' =
           [v \in UAVs |-> IF Disconnects(v) THEN FALSE ELSE telem1_status[v]]
    /\ home' = [v \in UAVs |->
                   IF Disconnects(v) THEN HomeAfterLoss(v) ELSE home[v]]
    /\ Quiet
    /\ UNCHANGED <<telem1_connection, discovered, uav_last_seen, upload_vars,
                   now, link_vars, arm_vars, safety_vars, mission_vars,
                   gps_fix_type, position, timer_vars,
                   thread_vars>>

\* SpecConn: two vehicles that send home positions and fall silent; the
\* clock runs for ConnHorizon seconds and the sweep runs at any moment.
NextConn ==
    \/ now < StartTime + ConnHorizon /\ Tick
    \/ \E v \in BroadcastUAVs : RecvTelemetry(v)
    \/ \E v \in BroadcastUAVs : RecvHomePosition(v, [lat |-> 1, lng |-> 1])
    \/ CheckUavConnectionStatus

SpecConn == Init /\ [][NextConn]_vars

\* ------------------------------------------------------- mission timer
\* mavutil.mode_string_v10: the flight modes a heartbeat may name
Modes == {"STABILIZE", "GUIDED", "AUTO", "LOITER", "LAND"}

\* the modes the handler takes for flying
FlyingModes == {"GUIDED", "AUTO", "LOITER", "POSHOLD", "ALT_HOLD"}

\* HEARTBEAT handler, 'Mission timer logic': does this heartbeat start the
\* timer (previous_* are the record's values before the update, new_* the
\* values of the message)
StartsTimer(previous_mode, previous_armed, new_mode, new_armed, running) ==
    /\ ~(~previous_armed /\ new_armed)
    /\ new_armed /\ previous_mode # new_mode
    /\ new_mode \in FlyingModes /\ ~running

\* ... and does it stop a running timer
StopsTimer(previous_mode, previous_armed, new_mode, new_armed, running) ==
    \/ previous_armed /\ ~new_armed /\ running
    \/ /\ ~(previous_armed /\ ~new_armed /\ running)
       /\ new_armed /\ new_mode = "LAND" /\ previous_mode # "LAND" /\ running

\* UAVState.mission_running after the heartbeat: start_mission_timer sets
\* it, stop_mission_timer clears it
RunningAfter(previous_mode, previous_armed, new_mode, new_armed, running) ==
    LET started ==
            running \/ StartsTimer(previous_mode, previous_armed,
                                   new_mode, new_armed, running)
    IN started /\ ~StopsTimer(previous_mode, previous_armed,
                              new_mode, new_armed, started)

\* receive loop, HEARTBEAT(new_mode, new_armed) from v, in one piece: the
\* protected update of mode and armed, then the timer logic
RecvHeartbeat(v, new_mode, new_armed) ==
    /\ Telem1Seen(v)
    /\ armed' = [armed EXCEPT ![v] = ProtectedArmed(v, new_armed, now)]
    /\ pending_arm_command' =
           [pending_arm_command EXCEPT
               ![v] = IF Expired(@, now) THEN NoTime ELSE @]
    /\ pending_disarm_command' =
           [pending_disarm_command EXCEPT
               ![v] = IF Expired(@, now) THEN NoTime ELSE @]
    /\ mode' = [mode EXCEPT ![v] = new_mode]
    /\ last_update' = [last_update EXCEPT ![v] = <<now>>]
    /\ home' = [home EXCEPT
                   ![v] = update_home_position_if_needed(
                              @, gps_fix_type[v], position[v])]
    /\ mission_running' =
           [mission_running EXCEPT
               ![v] = RunningAfter(mode[v], armed[v], new_mode, new_armed, @)]
    /\ tx' = HomeRequest(v)
    /\ ret' = <<>>
    /\ emitted' = <<>>
    /\ UNCHANGED <<telem1_connection, upload_vars, now, link_vars, heartbeat,
                   battery_status, last_alert_time, alert_history,
                   mission_vars, gps_fix_type, position, thread_vars>>

\* SpecTimer: one vehicle whose heartbeats report every mode of Modes armed
\* or disarmed, with arm and disarm requests of the operator in between;
\* the clock runs for ArmHorizon seconds.
NextTimer ==
    \/ now < StartTime + ArmHorizon /\ Tick
    \/ \E v \in SessionUAVs, new_mode \in Modes, new_armed \in BOOLEAN :
          RecvHeartbeat(v, new_mode, new_armed)
    \/ \E v \in SessionUAVs : RequestArm(v, 0)
    \/ \E v \in SessionUAVs : RequestDisarm(v, 0)

SpecTimer == Init /\ [][NextTimer]_vars

\* ------------------------------------------- messages that are no telemetry
\* a STATUSTEXT that says nothing about Telem2
PlainText == {}

\* SpecQuiet: one vehicle with a healthy battery that sends battery reports,
\* plain status texts and mission acknowledgments as it likes, while the
\* connection sweep runs at any moment and the safety monitor fires every
\* 1..MaxTimerLag seconds; the clock runs for CommHorizon seconds.
NextQuiet ==
    \/ \E v \in SessionUAVs, reading \in HealthyReadings :
          RecvSysStatus(v, reading)
    \/ \E v \in SessionUAVs : RecvStatusText(v, PlainText)
    \/ \E v \in SessionUAVs : RecvMissionAck(v, MAV_MISSION_ACCEPTED)
    \/ CheckUavConnectionStatus
    \/ \E lag \in 1..MaxTimerLag :
          now + lag <= StartTime + CommHorizon /\ MonitorAllUavs(lag)

SpecQuiet == Init /\ [][NextQuiet]_vars

\* SpecParse: one connected vehicle whose operator loads mission files with
\* short lines and resumes from the loaded file, whole or cut short by a
\* line, while the upload worker runs as far as the mission count and the
\* vehicle drops off Telem1.
NextParse ==
    \/ \E v \in SessionUAVs : RecvTelemetry(v)
    \/ \E v \in SessionUAVs, file \in RoughFiles : AppLoadMission(v, file)
    \/ \E v \in SessionUAVs : \E file \in ResumeFiles(v), wp \in WaypointIndex :
          ResumeMissionFromWaypoint(v, file, wp)
    \/ \E v \in SessionUAVs : AcquireSlot(v)
    \/ \E v \in SessionUAVs : RegisterEvent(v)
    \/ \E v \in SessionUAVs : RegisterUpload(v)
    \/ \E v \in SessionUAVs : SendMissionCount(v)
    \/ \E v \in SessionUAVs : ConnectionLost(v)

SpecParse == Init /\ [][NextParse]_vars

\* --------------------------------- MISSION_ITEM_REACHED, statement by statement
\* receive loop, MISSION_ITEM_REACHED(seq) from v, up to the assignment of
\* reached_wp_index = state.uploaded_waypoint_indices[msg.seq]
ItemReachedRead(v, seq) ==
    /\ item_reached = EmptyDict
    /\ Telem1Seen(v)
    /\ item_reached' =
           IF seq < Len(uploaded_waypoint_indices[v])
           THEN Put(item_reached, v, uploaded_waypoint_indices[v][seq + 1])
           ELSE item_reached
    /\ tx' = HomeRequest(v)
    /\ ret' = <<>>
    /\ emitted' = <<>>
    /\ UNCHANGED <<telem1_connection, upload_vars, now, link_vars, arm_vars,
                   safety_vars, mission_vars, fix_vars, timer_vars,
                   mavlink_lock, sender, inbox, clear_wait>>

\* ... and from there on: the membership test, the append and the sort, on
\* the list the record holds by then
ItemReachedAppend(v) ==
    /\ v \in DOMAIN item_reached
    /\ reached_waypoint_indices' =
           IF ~Contains(reached_waypoint_indices[v], item_reached[v])
           THEN [reached_waypoint_indices EXCEPT
                    ![v] = SortedInsert(@, item_reached[v])]
           ELSE reached_waypoint_indices
    /\ item_reached' = Del(item_reached, v)
    /\ tx' = <<>>
    /\ ret' = <<>>
    /\ emitted' = <<>>
    /\ UNCHANGED <<telem1_connection, discovered, telem1_status,
                   uav_last_seen, upload_vars, now, link_vars, arm_vars,
                   safety_vars, original_waypoint_indices,
                   uploaded_waypoint_indices, fix_vars, timer_vars,
                   mavlink_lock, sender, inbox, clear_wait>>

\* SpecRace: a connected vehicle that has a mission loaded and no upload in
\* progress reports items reached, handled by the receive loop statement by
\* statement, while the operator loads another mission file on the command
\* thread (only when the upload can start).
NextRace ==
    \/ \E v \in SessionUAVs, seq \in WaypointIndex : ItemReachedRead(v, seq)
    \/ \E v \in SessionUAVs : ItemReachedAppend(v)
    \/ \E v \in SessionUAVs, file \in MissionFiles :
          CanStartUpload(v, Len(file)) /\ AppLoadMission(v, file)

SpecRace == InitPlan /\ [][NextRace]_vars

\* ------------------------------------------------ wire sends, step by step
\* a ...mav.*_send(...) call of the program: the thread it runs on, the
\* channel it writes, the message, and whether the call stands inside
\* `with self.mavlink_lock`
WireSend(thread, chan, type, locked) ==
    [thread |-> thread, chan |-> chan, type |-> type, locked |-> locked]

\* receive loop: the requests for a heartbeat and for the home position, the
\* answer to a mission request, the Telem2 connection check
LoopSends ==
    {WireSend("loop", "telem1", "COMMAND_LONG", TRUE),
     WireSend("loop", "telem1", "MISSION_ITEM_INT", TRUE),
     WireSend("loop", "telem1", "MISSION_ITEM", TRUE),
     WireSend("loop", "telem2", "PARAM_SET", FALSE)}

\* calling thread: send_command_telem1, clear_mission, send_command_telem2
CommandSends ==
    {WireSend("command", "telem1", "SET_MODE", TRUE),
     WireSend("command", "telem1", "COMMAND_LONG", TRUE),
     WireSend("command", "telem1", "MISSION_CLEAR_ALL", TRUE),
     WireSend("command", "telem2", "COMMAND_LONG", FALSE)}

\* upload worker: the mission count
WorkerSends == {WireSend("worker", "telem1", "MISSION_COUNT", TRUE)}

WireSends == LoopSends \cup CommandSends \cup WorkerSends

\* the conditions under which the code reaches the send for vehicle v
Reaches(s, v) ==
    CASE s.chan = "telem2" /\ s.thread = "loop" ->
            telem2_connection /\ v \in discovered
      [] s.chan = "telem2" /\ s.thread = "command" ->
            v \in discovered /\ should_use_telem2(v)
      [] s.thread = "command" /\ s.type # "MISSION_CLEAR_ALL" ->
            Telem1Available(v)
      [] s.thread = "command" -> telem1_connection /\ v \in discovered
      [] s.thread = "worker" -> telem1_connection /\ v \in discovered
      [] s.type \in {"MISSION_ITEM_INT", "MISSION_ITEM"} ->
            telem1_connection /\ v \in DOMAIN active_mission_uploads
      [] OTHER -> telem1_connection

\* the thread reaches the send: it writes at once, or first asks for the lock
BeginSend(t, s, v) ==
    /\ s \in WireSends /\ s.thread = t
    /\ Reaches(s, v)
    /\ sender[t] = Idle
    /\ sender' = [sender EXCEPT
                     ![t] = [pc |-> IF s.locked THEN "waiting" ELSE "sending",
                             chan |-> s.chan, type |-> s.type,
                             target |-> v, locked |-> s.locked]]
    /\ Quiet
    /\ UNCHANGED <<telem1_connection, discovered, telem1_status,
                   uav_last_seen, upload_vars, now, link_vars, arm_vars,
                   safety_vars, mission_vars, fix_vars, timer_vars,
                   mavlink_lock, inbox, clear_wait, item_reached>>

\* threading.Lock.__enter__: the lock is free and the thread takes it
AcquireLock(t) ==
    /\ sender[t].pc = "waiting"
    /\ mavlink_lock = Free
    /\ mavlink_lock' = t
    /\ sender' = [sender EXCEPT ![t].pc = "sending"]
    /\ Quiet
    /\ UNCHANGED <<telem1_connection, discovered, telem1_status,
                   uav_last_seen, upload_vars, now, link_vars, arm_vars,
                   safety_vars, mission_vars, fix_vars, timer_vars,
                   inbox, clear_wait, item_reached>>

\* the message has been written; a send made under the lock releases it
EndSend(t) ==
    /\ sender[t].pc = "sending"
    /\ tx' = <<Msg(sender[t].chan, sender[t].type, sender[t].target, 0)>>
    /\ mavlink_lock' = IF sender[t].locked THEN Free ELSE mavlink_lock
    /\ sender' = [sender EXCEPT ![t] = Idle]
    /\ ret' = <<>>
    /\ emitted' = <<>>
    /\ UNCHANGED <<telem1_connection, discovered, telem1_status,
                   uav_last_seen, upload_vars, now, link_vars, arm_vars,
                   safety_vars, mission_vars, fix_vars, timer_vars,
                   inbox, clear_wait, item_reached>>

\* SpecWire: the receive loop, the calling thread and an upload worker of one
\* vehicle.  The loop handles a message or the connection sweep between two
\* of its sends; the other threads send whenever their conditions hold.
NextWire ==
    \/ \E t \in Threads, s \in WireSends, v \in SessionUAVs :
          BeginSend(t, s, v)
    \/ \E t \in Threads : AcquireLock(t)
    \/ \E t \in Threads : EndSend(t)
    \/ /\ sender["loop"] = Idle
       /\ \E v \in SessionUAVs :
             \/ RecvTelemetry(v)
             \/ \E text \in Texts : RecvStatusText(v, text)
             \/ ConnectionLost(v)

SpecWire == InitRoute /\ [][NextWire]_vars

\* ------------------------------------------- the inbound stream of Telem1
\* messages that have arrived on telem1_connection and have not been read
MaxInbox == 2

InboundMessage(src, type, arg) == [src |-> src, type |-> type, arg |-> arg]

InboundMessages ==
    {InboundMessage(v, "HEARTBEAT", 0) : v \in SessionUAVs}
    \cup {InboundMessage(v, "MISSION_ACK", a) :
             v \in SessionUAVs, a \in AckTypes}
    \cup {InboundMessage(v, "MISSION_REQUEST_INT", seq) :
             v \in SessionUAVs, seq \in Seqs}

\* a message from a vehicle reaches the ground station
Arrive(msg) ==
    /\ telem1_connection
    /\ Len(inbox) < MaxInbox
    /\ inbox' = Append(inbox, msg)
    /\ Quiet
    /\ UNCHANGED <<telem1_connection, discovered, telem1_status,
                   uav_last_seen, upload_vars, now, link_vars, arm_vars,
                   safety_vars, mission_vars, fix_vars, timer_vars,
                   mavlink_lock, sender, clear_wait, item_reached>>

\* _loop: recv_match(blocking=False) returns the next message and
\* _handle_telem1_message dispatches it by kind
LoopRecv ==
    /\ inbox # <<>>
    /\ inbox' = Tail(inbox)
    /\ LET msg == Head(inbox)
           v == msg.src IN
       /\ Telem1Seen(v)
       /\ CASE msg.type = "MISSION_ACK" ->
                 /\ IF v \in DOMAIN active_mission_uploads
                    THEN /\ active_mission_uploads' =
                                Put(active_mission_uploads, v,
                                    OnMissionAck(active_mission_uploads[v],
                                                 msg.arg))
                         /\ mission_upload_events' =
                                IF SignalsCompletion(v)
                                THEN Put(mission_upload_events, v, TRUE)
                                ELSE mission_upload_events
                    ELSE UNCHANGED <<active_mission_uploads,
                                     mission_upload_events>>
                 /\ tx' = HomeRequest(v)
            [] msg.type = "MISSION_REQUEST_INT" ->
                 /\ IF HasWaypoints(v)
                    THEN LET us == active_mission_uploads[v] IN
                         /\ active_mission_uploads' =
                                Put(active_mission_uploads, v,
                                    OnMissionRequest(us, msg.arg))
                         /\ tx' = HomeRequest(v) \o
                                  (IF SendsItem(us, msg.arg)
                                   THEN <<Msg("telem1", "MISSION_ITEM_INT",
                                              v, msg.arg)>>
                                   ELSE <<>>)
                    ELSE /\ UNCHANGED active_mission_uploads
                         /\ tx' = HomeRequest(v)
                 /\ UNCHANGED mission_upload_events
            [] OTHER ->
                 /\ tx' = HomeRequest(v)
                 /\ UNCHANGED <<active_mission_uploads,
                                mission_upload_events>>
    /\ ret' = <<>>
    /\ emitted' = <<>>
    /\ UNCHANGED <<telem1_connection, upload_semaphore, upload_thread,
                   releasing, now, link_vars, arm_vars, safety_vars,
                   mission_vars, fix_vars, timer_vars,
                   mavlink_lock, sender, clear_wait, item_reached>>

\* load_mission up to the wait of clear_mission: the request passes the
\* early checks and MISSION_CLEAR_ALL is sent
BeginLoad(v, n) ==
    /\ clear_wait = <<>>
    /\ ~RejectedEarly(v, n)
    /\ ClearSends(v)
    /\ tx' = MissionClear(v, n)
    /\ clear_wait' = <<[uav |-> v, waypoints |-> n, acked |-> FALSE]>>
    /\ ret' = <<>>
    /\ emitted' = <<>>
    /\ UNCHANGED <<telem1_connection, discovered, telem1_status,
                   uav_last_seen, upload_vars, now, link_vars, arm_vars,
                   safety_vars, mission_vars, fix_vars, timer_vars,
                   mavlink_lock, sender, inbox, item_reached>>

\* clear_mission, one turn of its wait: recv_match(type='MISSION_ACK',
\* blocking=False) on telem1_connection reads the next message; it returns
\* it when it is a MISSION_ACK and drops it otherwise
ClearPoll ==
    /\ clear_wait # <<>>
    /\ ~clear_wait[1].acked
    /\ inbox # <<>>
    /\ inbox' = Tail(inbox)
    /\ clear_wait' =
          IF /\ Head(inbox).type = "MISSION_ACK"
             /\ Head(inbox).src = clear_wait[1].uav
          THEN <<[clear_wait[1] EXCEPT !.acked = TRUE]>>
          ELSE clear_wait
    /\ Quiet
    /\ UNCHANGED <<telem1_connection, discovered, telem1_status,
                   uav_last_seen, upload_vars, now, link_vars, arm_vars,
                   safety_vars, mission_vars, fix_vars, timer_vars,
                   mavlink_lock, sender, item_reached>>

\* clear_mission returns True (acknowledged, or five seconds have passed) and
\* load_mission goes on to _upload_mission_to_uav
FinishLoad(v) ==
    /\ clear_wait # <<>>
    /\ clear_wait[1].uav = v
    /\ load_mission(v, clear_wait[1].waypoints)
    /\ clear_wait' = <<>>
    /\ tx' = <<>>
    /\ emitted' = <<>>
    /\ UNCHANGED <<telem1_connection, discovered, telem1_status,
                   uav_last_seen, mission_upload_events, upload_semaphore,
                   releasing, now, link_vars, arm_vars, safety_vars,
                   mission_vars, fix_vars, timer_vars,
                   mavlink_lock, sender, inbox, item_reached>>

\* SpecInbox: messages of one vehicle queue up on Telem1 while the receive
\* loop, a load on the calling thread and the upload worker run.
NextInbox ==
    \/ \E msg \in InboundMessages : Arrive(msg)
    \/ LoopRecv
    \/ \E v \in SessionUAVs, n \in 0..MaxWaypoints : BeginLoad(v, n)
    \/ \E v \in SessionUAVs, n \in 0..MaxWaypoints :
          clear_wait = <<>> /\ MissionClear(v, n) = <<>> /\ LoadMission(v, n)
    \/ ClearPoll
    \/ \E v \in SessionUAVs : FinishLoad(v)
    \/ \E v \in SessionUAVs : ConnectionLost(v)
    \/ \E v \in SessionUAVs : AcquireSlot(v)
    \/ \E v \in SessionUAVs : RegisterEvent(v)
    \/ \E v \in SessionUAVs : RegisterUpload(v)
    \/ \E v \in SessionUAVs : SendMissionCount(v)
    \/ \E v \in SessionUAVs : WaitSignaled(v)
    \/ \E v \in SessionUAVs : WaitTimeout(v)
    \/ \E v \in SessionUAVs : ReportResults(v)
    \/ ReleaseSlot

SpecInbox == Init /\ [][NextInbox]_vars

\* =================================================================== claims
AllSeqs(us) == 0..(us.waypoints - 1)

Session(v) == active_mission_uploads[v]

\* the worker holds a slot of the semaphore (between acquire and `finally`)
HoldsSlot(v) ==
    v \in DOMAIN upload_thread
    /\ upload_thread[v].pc \in {"acquired", "event", "registered", "wait", "woke"}

SuccessNote(v) == Completed(v, TRUE, "Mission uploaded successfully", NoError)

TimeoutNote(v) == Completed(v, FALSE, "Upload timeout", NoError)

\* C1 - Upload success.  For a session that holds a slot and has sent the
\* mission count: when every sequence number 0..N-1 has been answered and an
\* accepted MISSION_ACK is handled while the worker still waits, the session
\* is Complete with success = TRUE and the completion event is set; the wait
\* then returns without a timeout; and the worker reporting from that state
\* emits the success notification.
C1_UploadSuccess ==
    [][\A v \in UAVs :
        /\ (/\ RecvMissionAck(v, MAV_MISSION_ACCEPTED)
            /\ At(v, "wait")
            /\ Session(v).requests_received = AllSeqs(Session(v)))
           => /\ Session(v)'.phase = "complete"
              /\ Session(v)'.success
              /\ mission_upload_events'[v]
        /\ (At(v, "wait") /\ mission_upload_events[v] /\ At(v, "woke")')
           => ~upload_thread'[v].timeout_occurred
        /\ (/\ ReportResults(v)
            /\ ~upload_thread[v].timeout_occurred
            /\ Session(v).phase = "complete" /\ Session(v).success)
           => emitted' = <<SuccessNote(v)>>
      ]_vars

\* C1 witness: a MaxWaypoints-waypoint session with every request answered,
\* accepted, and its worker woken by the event without a timeout.
C1_Witness ==
    \E v \in UAVs :
        /\ At(v, "woke") /\ ~upload_thread[v].timeout_occurred
        /\ Session(v).waypoints = MaxWaypoints
        /\ Session(v).requests_received = AllSeqs(Session(v))
        /\ Session(v).waypoints_sent = MaxWaypoints
        /\ Session(v).phase = "complete" /\ Session(v).success

\* C2 - Acquire / do work / always release.  Every slot is accounted for:
\* the free slots, the workers between acquire and the end of the try block
\* and the workers in `finally` always add up to the capacity, so a worker
\* that acquired releases exactly once on every exit path, a worker that
\* timed out waiting for a slot releases none, the free slots never exceed the
\* capacity and they are back at the capacity when no worker runs.
C2_AlwaysRelease ==
    /\ upload_semaphore + Cardinality({v \in UAVs : HoldsSlot(v)}) + releasing
           = MaxConcurrent
    /\ upload_semaphore <= MaxConcurrent
    /\ (DOMAIN upload_thread = {} /\ releasing = 0)
           => upload_semaphore = MaxConcurrent

\* C2 witness: a worker gave up waiting for a slot (its reservation is still
\* there), every other worker has ended, and all slots are free again.
C2_Witness ==
    /\ DOMAIN upload_thread = {} /\ releasing = 0
    /\ upload_semaphore = MaxConcurrent
    /\ DOMAIN active_mission_uploads # {}

\* C3 - Concurrency cap (safety).  At most MaxConcurrent sessions are past
\* the gate (registered by a worker, whatever their phase), and a
\* MISSION_COUNT is transmitted only by a worker that holds a slot.
C3_ConcurrencyCap ==
    /\ Cardinality({v \in UAVs : HasWaypoints(v)}) <= MaxConcurrent
    /\ \A i \in DOMAIN tx :
           tx[i].type = "MISSION_COUNT"
           => HoldsSlot(tx[i].target) /\ upload_semaphore < MaxConcurrent

\* C3 witness: MaxConcurrent sessions are in their handshake, the last count
\* was just sent, and another worker is waiting for a slot.
C3_Witness ==
    /\ Cardinality({v \in UAVs : At(v, "wait")}) = MaxConcurrent
    /\ \E v \in UAVs : At(v, "start")
    /\ \E i \in DOMAIN tx : tx[i].type = "MISSION_COUNT"

\* C4 - Timeout releases resources.  When the wait for the acknowledgment
\* times out, the worker reports a failure with the timeout reason, the
\* session record and its event are removed, the worker goes on to release
\* its slot, and after a release a slot is free for the next acquire.
C4_TimeoutReleases ==
    [][/\ \A v \in UAVs :
            /\ (At(v, "wait") /\ ~mission_upload_events[v] /\ At(v, "woke")')
               => upload_thread'[v].timeout_occurred
            /\ (ReportResults(v) /\ upload_thread[v].timeout_occurred)
               => /\ emitted' = <<TimeoutNote(v)>>
                  /\ v \notin DOMAIN active_mission_uploads'
                  /\ v \notin DOMAIN mission_upload_events'
                  /\ releasing' = releasing + 1
       /\ (releasing > 0 /\ ReleaseSlot)
            => upload_semaphore' = upload_semaphore + 1 /\ SlotFree'
      ]_vars

\* C4 witness: the timeout notification was just emitted for a session whose
\* mission count had been sent, and its record is gone.
C4_Witness ==
    \E v \in UAVs :
        /\ emitted = <<TimeoutNote(v)>>
        /\ v \notin DOMAIN active_mission_uploads
        /\ releasing > 0

CountJustSent(v) ==
    /\ At(v, "wait")
    /\ tx = <<Msg("telem1", "MISSION_COUNT", v, upload_thread[v].waypoints)>>

SendRaised(v) == emitted = <<Completed(v, FALSE, "Exception", NoError)>>

\* C5 - Concurrency cap (liveness).  With every slot taken, a worker waiting
\* for a slot stays waiting, its session stays the reservation and no
\* MISSION_COUNT is transmitted for its vehicle; no waiting worker reaches
\* the 120 s bound of the acquire; and every waiting worker eventually gets a
\* slot freed by a terminating session and reaches the transmission of its
\* MISSION_COUNT (sent, or the send raises).
C5_ThirdWaitsThenProceeds ==
    /\ [](\A v \in UAVs :
            At(v, "start") => upload_thread[v].slot_waited < SlotAcquireTimeout)
    /\ [][\A v \in UAVs :
            (At(v, "start") /\ upload_semaphore <= 0)
            => /\ At(v, "start")'
               /\ Session(v)'.reserved
               /\ \A i \in DOMAIN tx' :
                      ~(tx'[i].type = "MISSION_COUNT" /\ tx'[i].target = v)
         ]_vars
    /\ \A v \in UAVs :
           At(v, "start") ~> (CountJustSent(v) \/ SendRaised(v))

\* C5 witness: a worker has just sent its MISSION_COUNT holding the last
\* slot, another session is in its handshake, and a third upload has ended
\* and released its slot - three acquisitions of MaxConcurrent = 2 slots.
C5_Witness ==
    \E v \in UAVs : \E u \in UAVs \ {v} : \E w \in UAVs \ {v, u} :
        /\ CountJustSent(v)
        /\ upload_thread[v].slot_waited > 0
        /\ At(u, "wait")
        /\ w \notin DOMAIN upload_thread
        /\ releasing = 0
        /\ upload_semaphore = 0

\* C6 - One session per vehicle.  A load-mission request for a vehicle that
\* has a session (reserved or in handshake) returns failure, transmits
\* nothing (no MISSION_CLEAR_ALL, no MISSION_COUNT), starts no worker and
\* leaves the sessions, the events and the semaphore as they were.
C6_SecondRequestRejected ==
    [][\A v \in UAVs, n \in 0..MaxWaypoints :
        (LoadMission(v, n) /\ v \in DOMAIN active_mission_uploads)
        => /\ ret' = <<Returned("load_mission", FALSE)>>
           /\ tx' = <<>>
           /\ UNCHANGED <<active_mission_uploads, upload_thread,
                          mission_upload_events, upload_semaphore, releasing>>
      ]_vars

\* C6 witness: a load-mission request was just refused while the vehicle's
\* session is in its handshake with one of two waypoints answered.
C6_Witness ==
    \E v \in UAVs :
        /\ ret = <<Returned("load_mission", FALSE)>> /\ tx = <<>>
        /\ At(v, "wait") /\ HasWaypoints(v)
        /\ Session(v).requests_received = {0} /\ Session(v).waypoints = 2

IsItem(m) == m.type \in {"MISSION_ITEM", "MISSION_ITEM_INT"}

\* C7 - Idempotent request handling.  A MISSION_REQUEST or
\* MISSION_REQUEST_INT for a sequence number already answered transmits no
\* mission item and leaves the session (requests_received, waypoints_sent,
\* phase and every other field) unchanged.
C7_DuplicateIgnored ==
    [][\A v \in UAVs, t \in {"MISSION_REQUEST", "MISSION_REQUEST_INT"},
          seq \in Seqs :
        (/\ RecvMissionRequest(v, t, seq)
         /\ HasWaypoints(v)
         /\ seq \in Session(v).requests_received)
        => /\ Session(v)' = Session(v)
           /\ \A i \in DOMAIN tx' : ~IsItem(tx'[i])
      ]_vars

\* C7 witness: a session with one of its two waypoints answered and sent once,
\* reached by a step that transmitted nothing.
C7_Witness ==
    \E v \in UAVs :
        /\ HasWaypoints(v) /\ At(v, "wait")
        /\ Session(v).waypoints = 2
        /\ Session(v).requests_received = {0}
        /\ Session(v).waypoints_sent = 1
        /\ Session(v).phase = "count_sent"
        /\ tx = <<>> /\ ret = <<>>

\* C8 - An out-of-range request aborts the session: when the worker reports a
\* session whose recorded error is the invalid request, the notification is
\* the failure naming that request (not a timeout, not a success).
C8_InvalidRequestAborts ==
    [][\A v \in UAVs :
        (ReportResults(v) /\ Session(v).error[1] = "Invalid waypoint request")
        => emitted' = <<Completed(v, FALSE, "Upload failed", Session(v).error)>>
      ]_vars

\* C9 - Phases in order: an upload is reported successful only for a session
\* in which every sequence number 0..N-1 had been answered when the worker
\* read the result; an acknowledgment handled earlier yields no success.
C9_SuccessOnlyAfterAllAnswered ==
    [][\A v \in UAVs :
        (ReportResults(v) /\ emitted' = <<SuccessNote(v)>>)
        => Session(v).requests_received = AllSeqs(Session(v))
      ]_vars

\* C10 - The session record is destroyed on every terminating path: when an
\* upload-result notification is emitted for a vehicle, that vehicle has no
\* session record left, so the next load-mission request is not refused as
\* already in progress.
C10_RecordDestroyed ==
    \A i \in DOMAIN emitted :
        emitted[i].uav \notin DOMAIN active_mission_uploads

\* the messages of tx' handed to one channel
SentOn(chan) == SelectSeq(tx', LAMBDA msg : msg.chan = chan)

\* C11 - Channel fallback: for a known vehicle that Primary cannot serve,
\* with Secondary open and the vehicle's Secondary health true, a send whose
\* transmissions all succeed puts the command on Secondary exactly three
\* times, nothing on Primary, and returns true; a send with a failing
\* transmission returns false; with Secondary closed or unhealthy the send
\* transmits nothing and returns false.
C11_ChannelFallback ==
    [][\A v \in UAVs, cmd \in Commands, fail_at \in Failures :
        (SendCommand(v, cmd, fail_at) /\ v \in discovered /\ ~Telem1Available(v))
        => IF telem2_connection /\ get_telem2_status(v)
           THEN /\ SentOn("telem1") = <<>>
                /\ fail_at = 0 => Len(SentOn("telem2")) = Telem2Repeats
                /\ ret' = <<Returned("send_command", fail_at = 0)>>
           ELSE /\ tx' = <<>>
                /\ ret' = <<Returned("send_command", FALSE)>>
      ]_vars

\* C12 - Primary is preferred: when Primary is open and the vehicle is marked
\* connected on it, a send puts the command on Primary exactly once, puts
\* nothing on Secondary whatever Secondary's health, and returns the outcome
\* of the Primary transmission.
C12_PrimaryPreferred ==
    [][\A v \in UAVs, cmd \in Commands, fail_at \in Failures :
        (SendCommand(v, cmd, fail_at) /\ Telem1Available(v))
        => /\ SentOn("telem2") = <<>>
           /\ fail_at # 1 => Len(SentOn("telem1")) = 1
           /\ ret' = <<Returned("send_command", fail_at # 1)>>
      ]_vars

\* the message types of the mission-transfer protocol
MissionTransfer ==
    {"MISSION_COUNT", "MISSION_ITEM", "MISSION_ITEM_INT", "MISSION_CLEAR_ALL"}

\* C13 - Mission transfer stays on Primary: no mission-transfer message is
\* ever handed to Secondary, and load_mission for a vehicle that Primary
\* cannot serve (Primary closed or the vehicle not connected on it) returns
\* false and starts no session, whatever the state of Secondary.
C13_MissionOnPrimaryOnly ==
    /\ [](\A i \in 1..Len(tx) :
            tx[i].type \in MissionTransfer => tx[i].chan = "telem1")
    /\ [][\A v \in UAVs, n \in 0..MaxWaypoints :
            (LoadMission(v, n) /\ ~Telem1Available(v))
            => /\ ret' = <<Returned("load_mission", FALSE)>>
               /\ UNCHANGED <<active_mission_uploads, upload_thread>>
               /\ SentOn("telem2") = <<>>
         ]_vars

\* an upload was just refused for a vehicle that only Secondary could serve,
\* after its MISSION_CLEAR_ALL went out on Primary
C13_Witness ==
    \E v \in UAVs :
        /\ should_use_telem2(v) /\ telem1_connection
        /\ ret = <<Returned("load_mission", FALSE)>>
        /\ tx = <<Msg("telem1", "MISSION_CLEAR_ALL", v, 0)>>
        /\ v \notin DOMAIN active_mission_uploads

\* the STATUSTEXTs that report Telem2 as ok or restored
OkReports == {text \in Texts :
                 "telem2 connection" \in text
                 /\ ("ok" \in text \/ "restored" \in text)}

\* C14 - Secondary health is derived from status reports: after a sweep a
\* vehicle's health is true only if its last report is at most
\* telem2_status_timeout seconds old; health turns true only on receiving an
\* ok/restored report from that vehicle; a send for a vehicle whose health is
\* not true puts nothing on Secondary; a vehicle that never reported has
\* health false.
C14_SecondaryHealth ==
    /\ [][CheckTelem2Status =>
            \A v \in discovered :
                (v \in DOMAIN uav_telem2_status' /\ uav_telem2_status'[v])
                => /\ v \in DOMAIN uav_telem2_last_update
                   /\ now - uav_telem2_last_update[v] <= telem2_status_timeout
         ]_vars
    /\ [][\A v \in UAVs :
            (~get_telem2_status(v)
             /\ v \in DOMAIN uav_telem2_status' /\ uav_telem2_status'[v])
            => \E text \in OkReports : RecvStatusText(v, text)
         ]_vars
    /\ [][\A v \in UAVs, cmd \in Commands, fail_at \in Failures :
            (SendCommand(v, cmd, fail_at) /\ ~get_telem2_status(v))
            => SentOn("telem2") = <<>>
         ]_vars
    /\ [](\A v \in UAVs :
            v \notin DOMAIN uav_telem2_last_update => ~get_telem2_status(v))

\* a command for a vehicle that only Secondary could serve was just refused:
\* its health is false and its last report is older than the window
C14_Witness ==
    \E v \in discovered :
        /\ telem2_connection /\ ~Telem1Available(v)
        /\ v \in DOMAIN uav_telem2_status /\ ~uav_telem2_status[v]
        /\ now - uav_telem2_last_update[v] = telem2_status_timeout + 1
        /\ ret = <<Returned("send_command", FALSE)>>
        /\ tx = <<>>

\* C15 - Optimistic arm reconciliation: an arm request sets armed at once; a
\* heartbeat reporting disarmed whose processing starts inside the 3 s window
\* decides to keep armed = true and leaves the marker; a heartbeat whose
\* processing starts 3 s or more after the request decides on the reported
\* value and clears the marker; the decided value is the one stored.  The
\* same with the roles exchanged for a disarm request.
C15_OptimisticReconciliation ==
    /\ [][\A v \in UAVs, fail_at \in Failures :
            /\ (RequestArm(v, fail_at) /\ v \in discovered) => armed'[v]
            /\ (RequestDisarm(v, fail_at) /\ v \in discovered) => ~armed'[v]
         ]_vars
    /\ [][\A v \in UAVs, reported \in BOOLEAN :
            HeartbeatCheck(v, reported) =>
               /\ Pending(pending_arm_command[v], now)
                  => /\ heartbeat'[v].armed
                     /\ pending_arm_command'[v] = pending_arm_command[v]
               /\ Pending(pending_disarm_command[v], now)
                  => /\ ~heartbeat'[v].armed
                     /\ pending_disarm_command'[v] = pending_disarm_command[v]
               /\ Expired(pending_arm_command[v], now)
                  => /\ heartbeat'[v].armed = reported
                     /\ pending_arm_command'[v] = NoTime
               /\ Expired(pending_disarm_command[v], now)
                  => /\ heartbeat'[v].armed = reported
                     /\ pending_disarm_command'[v] = NoTime
         ]_vars
    /\ [][\A v \in UAVs :
            HeartbeatApply(v) => armed'[v] = heartbeat[v].armed
         ]_vars

\* one second after an arm request a heartbeat reporting disarmed is being
\* processed and has decided to keep armed = true
C15_Witness ==
    \E v \in UAVs :
        /\ v \in DOMAIN heartbeat
        /\ ~heartbeat[v].reported /\ heartbeat[v].armed
        /\ pending_arm_command[v] = <<now - 1>>
        /\ armed[v]

\* C16 - Under every interleaving of an arm request on the command thread
\* with heartbeat processing on the receive loop, armed is true at every
\* instant at which the pending-arm marker is set and its window is open.
C16_ArmedThroughoutWindow ==
    \A v \in UAVs : Pending(pending_arm_command[v], now) => armed[v]

\* C17 - The optimistic view heals within the timeout: no pending marker is
\* still set once more than command_timeout seconds have passed since the
\* request, also when the command was not sent or no heartbeat arrives.
C17_SelfHeals ==
    \A v \in UAVs :
        /\ pending_arm_command[v] # NoTime
           => now - pending_arm_command[v][1] <= command_timeout
        /\ pending_disarm_command[v] # NoTime
           => now - pending_disarm_command[v][1] <= command_timeout

Kinds == {"low_battery", "critical_battery"}

\* the condition monitored under each kind: the critical and emergency rows
\* for critical_battery, the warning row short of them for low_battery
Monitored(v, kind) ==
    IF kind = "critical_battery"
    THEN battery_status[v] <= battery_critical_threshold
    ELSE /\ battery_status[v] > battery_critical_threshold
         /\ battery_status[v] <= battery_warning_threshold

\* the alerts the step has added to the history of v
NewAlerts(v) ==
    SubSeq(alert_history'[v], Len(alert_history[v]) + 1, Len(alert_history'[v]))

\* an alert of the kind was sent for v no more than a cooldown ago
RecentAlert(v, kind, current_time) ==
    \E i \in DOMAIN alert_history[v] :
        /\ alert_history[v][i].alert_type = kind
        /\ current_time - alert_history[v][i].timestamp <= alert_cooldown

RecentBelowWarning(v, kinds, current_time) ==
    \E i \in DOMAIN alert_history[v] :
        /\ alert_history[v][i].alert_type \in kinds
        /\ alert_history[v][i].reading < battery_warning_threshold
        /\ current_time - alert_history[v][i].timestamp <= alert_cooldown

Emits(signal) == \E i \in DOMAIN emitted' : emitted'[i] = signal

\* an emergency-level battery alert was sent for v no more than a cooldown ago
RecentEmergencyAlert(v, current_time) ==
    \E i \in DOMAIN alert_history[v] :
        /\ alert_history[v][i].alert_type = "critical_battery"
        /\ alert_history[v][i].safety_level = "emergency"
        /\ current_time - alert_history[v][i].timestamp <= alert_cooldown

\* C21 - Battery emergency: at every tick at which a vehicle's battery is at
\* or below the emergency threshold and no emergency-level battery alert was
\* sent for it within the cooldown, an emergency-level alert is sent and
\* emergency-land is triggered for it; a critical-level alert sent shortly
\* before does not delay this.
C21_BatteryEmergency ==
    [][\A lag \in 1..MaxTimerLag : MonitorAllUavs(lag) =>
          \A v \in discovered :
              (battery_status[v] <= battery_emergency_threshold
               /\ ~RecentEmergencyAlert(v, now'))
              => /\ \E i \in DOMAIN NewAlerts(v) :
                        NewAlerts(v)[i].safety_level = "emergency"
                 /\ Emits(Triggered("emergency_land_triggered", v))
      ]_vars

\* C22 - Communication loss: at the first tick at which a vehicle's silence
\* is longer than twice the comm timeout an emergency-RTL is triggered for
\* it, whenever the preceding comm-loss alert was sent.
C22_RtlAtTwiceTimeout ==
    [][\A lag \in 1..MaxTimerLag : MonitorAllUavs(lag) =>
          \A v \in discovered :
              (/\ last_update[v] # NoTime
               /\ Silence(v, now) <= 2 * communication_timeout
               /\ Silence(v, now') > 2 * communication_timeout)
              => Emits(Triggered("emergency_rtl_triggered", v))
      ]_vars

\* the messages of tx' for vehicle v on one channel
SentTo(v, chan) ==
    SelectSeq(tx', LAMBDA msg : msg.chan = chan /\ msg.target = v)

\* C23 - An emergency for all vehicles whose transmissions all succeed
\* reaches every known vehicle through the arbiter: a vehicle connected on
\* Primary gets the command once over Primary, a vehicle that only a healthy
\* Secondary can serve gets it over Secondary.
C23_EmergencyAllReaches ==
    [][\A command_type \in EmergencyTypes :
          (BroadcastEmergency(command_type, 0) \/ EmergencyAll(command_type, 0))
          => \A v \in discovered :
                /\ Telem1Available(v)
                   => SentTo(v, "telem1")
                        = <<Telem1Message(v, EmergencyCommand(command_type))>>
                /\ should_use_telem2(v)
                   => /\ SentTo(v, "telem2") # <<>>
                      /\ SentTo(v, "telem1") = <<>>
      ]_vars


\* the positions of the original list from the resume waypoint onward that
\* hold a mission waypoint
KeptPositions(original, resume_from) ==
    {i \in DOMAIN original :
        /\ original[i] # 0
        /\ \E j \in 1..i : original[j] = resume_from}

\* the line of a mission file whose first column is wp_idx
FileLine(file, wp_idx) ==
    file[CHOOSE i \in DOMAIN file : file[i].index = wp_idx]

\* is the list planned: 0 first, then the kept positions in original order
IsResumePlan(planned, original, resume_from) ==
    /\ Len(planned) = 1 + Cardinality(KeptPositions(original, resume_from))
    /\ planned[1] = 0
    /\ \A k \in 2..Len(planned) :
          \E i \in KeptPositions(original, resume_from) :
             /\ planned[k] = original[i]
             /\ Cardinality({j \in KeptPositions(original, resume_from) :
                                 j < i}) = k - 2

\* the lines written to the temporary file by this step
TempFile == SelectSeq(tx, LAMBDA m : m.chan = "temp_file")

\* are the lines those of the planned indices, numbered 0..k-1 and
\* otherwise as in the file
IsRenumbered(lines, planned, file) ==
    /\ Len(lines) = Len(planned)
    /\ \A k \in DOMAIN lines :
          /\ lines[k].target = k - 1
          /\ lines[k].arg = FileLine(file, planned[k]).rest

PlanningFailed == ret = <<Returned("resume_mission", FALSE)>>

\* C25: resume planning on a vehicle with a non-empty original list, with
\* the file the mission was loaded from, fails exactly when the resume
\* waypoint is absent from the original indices or nothing but home would be
\* left; a failure is an error return that writes no line, starts no upload
\* and leaves uploaded_waypoint_indices alone; every other call plans, and
\* writes, at least two waypoints.
C25_ResumeFailure ==
    [][\A v \in SessionUAVs, wp \in WaypointIndex \cup {-1} :
          LET original == original_waypoint_indices[v]
              file == MissionFile(original)
          IN (original # <<>> /\ Resume(v, file, wp))
             => /\ PlanningFailed'
                    <=> \/ ~Contains(original, wp)
                        \/ KeptPositions(original, wp) = {}
                /\ PlanningFailed'
                    => /\ tx' = <<>>
                       /\ UNCHANGED <<uploaded_waypoint_indices,
                                      active_mission_uploads, upload_thread>>
                /\ ~PlanningFailed'
                    => /\ Len(uploaded_waypoint_indices'[v]) >= 2
                       /\ Len(TempFile') >= 2]_vars


\* every element of the list s occurs in the list t
Within(s, t) == \A i \in DOMAIN s : Contains(t, s[i])

C27_HomeAlwaysUploaded ==
    \A v \in UAVs :
       uploaded_waypoint_indices[v] # <<>>
          => Contains(uploaded_waypoint_indices[v], 0)


\* C28 as claimed: while a vehicle stays connected, a home position that
\* was set to a non-zero value is not changed by any later message.
C28_HomeSetOnce ==
    [][\A v \in SessionUAVs :
          (telem1_status[v] /\ home[v] # NoPlace /\ telem1_status'[v])
             => home'[v] = home[v]]_vars

\* C28: once the home position of a connected vehicle is non-zero it
\* changes only when a HOME_POSITION message carries other coordinates (it
\* becomes those) or when the vehicle is marked disconnected (it becomes
\* zero); fixes, positions, other telemetry and GPS_GLOBAL_ORIGIN leave it.
C28_HomeChangedByHomePositionOnly ==
    [][\A v \in SessionUAVs :
          (telem1_status[v] /\ home[v] # NoPlace /\ home'[v] # home[v])
             => \/ \E place \in Places :
                      /\ RecvHomePosition(v, place)
                      /\ home'[v] = place
                \/ ConnectionLost(v) /\ home'[v] = NoPlace]_vars

\* a connected vehicle with a 3D fix that has moved away from its home
C28_Witness ==
    \E v \in SessionUAVs :
       /\ telem1_status[v]
       /\ gps_fix_type[v] = 3
       /\ home[v] = [lat |-> 1, lng |-> 1]
       /\ position[v] = [lat |-> 2, lng |-> 2]


\* C29: a sweep of the connection check leaves every known vehicle whose
\* last message is more than 10 s old disconnected and with a zero home
\* position; no step removes a vehicle from the registry; a message from a
\* known vehicle marks it connected and creates no record (the registry is
\* as before and no home position is requested again).
C29_Disconnection ==
    /\ [][CheckUavConnectionStatus
            => \A v \in discovered :
                  now - LastSeen(v) > uav_connection_timeout
                     => ~telem1_status'[v] /\ home'[v] = NoPlace]_vars
    /\ [][discovered \subseteq discovered']_vars
    /\ [][\A v \in discovered :
             (RecvTelemetry(v) \/ \E place \in Places :
                                     RecvHomePosition(v, place))
                => /\ telem1_status'[v]
                   /\ discovered' = discovered
                   /\ tx' = <<>>]_vars

\* a vehicle that had a home position, fell silent and was marked
\* disconnected while the other one is still connected
C29_Witness ==
    \E v, w \in BroadcastUAVs :
       /\ {v, w} \subseteq discovered
       /\ ~telem1_status[v]
       /\ now - LastSeen(v) > uav_connection_timeout
       /\ home[v] = NoPlace
       /\ telem1_status[w]
       /\ home[w] # NoPlace


\* C30: a heartbeat that reports the vehicle armed in a flying mode, when
\* the record had it disarmed or in a mode that is not a flying one and the
\* mission timer is not running, leaves the timer running.
C30_TimerStarts ==
    [][\A v \in SessionUAVs, new_mode \in FlyingModes :
          (/\ RecvHeartbeat(v, new_mode, TRUE)
           /\ ~(armed[v] /\ mode[v] \in FlyingModes)
           /\ ~mission_running[v])
             => mission_running'[v]]_vars

\* the entry condition of an upload: Primary open and the vehicle marked
\* connected via Primary
EntryConditionMet(v) ==
    telem1_connection /\ v \in discovered /\ telem1_status[v]

\* C34 as claimed: a load-mission request made while the entry condition is
\* unmet returns failure, transmits nothing to the vehicle (no mission-clear,
\* no mission count), creates no session and takes no gate slot.
C34_EntryCheckedBeforeSending ==
    [][\A v \in SessionUAVs, n \in 0..MaxWaypoints :
          (LoadMission(v, n) /\ ~EntryConditionMet(v))
             => /\ ret' = <<Returned("load_mission", FALSE)>>
                /\ tx' = <<>>
                /\ active_mission_uploads' = active_mission_uploads
                /\ upload_thread' = upload_thread
                /\ upload_semaphore' = upload_semaphore]_vars


\* a call of App.load_mission or of one of the two resume functions
MissionRequest(v) ==
    \/ \E file \in MissionFiles : AppLoadMission(v, file)
    \/ \E file \in ResumeFiles(v), wp \in WaypointIndex :
          ResumeMissionFromWaypoint(v, file, wp)
    \/ \E file \in ResumeFiles(v) : ResumeMission(v, file)

\* the call of this step returned False: no upload was started
Rejected == ret' # <<>> /\ ~ret'[1].value

\* C35 as claimed: a load-mission or resume request that is rejected without
\* starting an upload leaves the vehicle's original, uploaded and reached
\* waypoint index lists exactly as they were.
C35_RejectedLeavesIndices ==
    [][\A v \in SessionUAVs :
          (MissionRequest(v) /\ Rejected)
             => /\ original_waypoint_indices'[v] = original_waypoint_indices[v]
                /\ uploaded_waypoint_indices'[v] = uploaded_waypoint_indices[v]
                /\ reached_waypoint_indices'[v] = reached_waypoint_indices[v]]_vars


\* the session of v has ended in the phase 'complete' or 'error'
Terminal(v) ==
    /\ HasWaypoints(v)
    /\ Session(v).phase \in {"complete", "error"}

\* an inbound mission-transfer message from v is handled by this step
MissionTransferIn(v) ==
    \/ \E t \in {"MISSION_REQUEST", "MISSION_REQUEST_INT"}, seq \in Seqs :
          RecvMissionRequest(v, t, seq)
    \/ \E a \in AckTypes : RecvMissionAck(v, a)

\* C37 as claimed: once a session's phase is 'complete' or 'error' an inbound
\* mission-transfer message changes neither its phase, nor its success flag,
\* nor its error reason, and no mission item is sent for it.
C37_TerminalAbsorbing ==
    [][\A v \in SessionUAVs :
          (Terminal(v) /\ MissionTransferIn(v))
             => /\ active_mission_uploads'[v].phase = Session(v).phase
                /\ active_mission_uploads'[v].success = Session(v).success
                /\ active_mission_uploads'[v].error = Session(v).error
                /\ \A i \in DOMAIN tx' : ~IsItem(tx'[i])]_vars


\* the mission items among the messages transmitted by this step
ItemsSent == SelectSeq(tx', IsItem)

Reconnects(v) ==
    v \in discovered /\ ~telem1_status[v] /\ telem1_status'[v]

\* the message handled by this step carries a position or a home position
\* of its own
CarriesPlace(v) ==
    \/ \E place \in Places : RecvGlobalPosition(v, place)
    \/ \E place \in Places : RecvHomePosition(v, place)
    \/ \E place \in Places : RecvGlobalOrigin(v, place)

\* C36 as claimed, at the message that reconnects a vehicle: its home
\* position was cleared when it was marked disconnected, and the latitude
\* and longitude the record holds were received before that, so the home
\* position is still zero after the message unless the message itself
\* carries a position or a home position.
C36_HomeNotFromStaleFix ==
    [][\A v \in SessionUAVs :
          (Reconnects(v) /\ home'[v] # NoPlace) => CarriesPlace(v)]_vars


\* the alerts of kind comm_loss this step adds to the history of v
NewCommLoss(v) ==
    SelectSeq(SubSeq(alert_history'[v], Len(alert_history[v]) + 1,
                     Len(alert_history'[v])),
              LAMBDA a : a.alert_type = "comm_loss")

\* this step emits the emergency-RTL signal for v
RtlTriggered(v) ==
    \E i \in DOMAIN emitted' :
       emitted'[i] = Triggered("emergency_rtl_triggered", v)

\* C40 as claimed: a firing of the safety monitor raises a comm-loss alert
\* for a vehicle only if no inbound message of any kind was received from it
\* for longer than the comm timeout, and the emergency RTL only if none was
\* received for longer than twice the timeout.
C40_CommLossOnlyWhenSilent ==
    [][\A v \in SessionUAVs :
          /\ NewCommLoss(v) # <<>>
                => now' - LastSeen(v) > communication_timeout
          /\ RtlTriggered(v)
                => now' - LastSeen(v) > 2 * communication_timeout]_vars


\* the call of this step returned True: an upload was started
Started == ret' # <<>> /\ ret'[1].value

\* the lines this step wrote to the temporary resume file
TempLines == SelectSeq(tx', LAMBDA m : m.chan = "temp_file")

\* C38 as claimed: when a load or a resume starts an upload, the waypoints
\* handed to the upload are as many as uploaded_waypoint_indices is long and
\* the k-th of them is the file's record of the k-th index of that list; the
\* total announced by the mission count is the length of that list.
C38_BookkeepingMatchesUpload ==
    /\ [][\A v \in SessionUAVs, file \in RoughFiles :
             (AppLoadMission(v, file) /\ Started)
                => /\ upload_thread'[v].waypoints
                         = Len(uploaded_waypoint_indices'[v])
                   /\ _parse_waypoint_indices(_parse_mission_file(file))
                         = uploaded_waypoint_indices'[v]]_vars
    /\ [][\A v \in SessionUAVs :
             \A file \in ResumeFiles(v), wp \in WaypointIndex :
                (ResumeMissionFromWaypoint(v, file, wp) /\ Started)
                   => /\ upload_thread'[v].waypoints
                            = Len(uploaded_waypoint_indices'[v])
                      /\ Len(TempLines) = Len(uploaded_waypoint_indices'[v])
                      /\ \A k \in DOMAIN TempLines :
                            TempLines[k].arg =
                               FileLine(file,
                                        uploaded_waypoint_indices'[v][k]).rest]_vars
    /\ [][\A v \in SessionUAVs :
             SendMissionCount(v)
                => tx'[1].arg = Len(uploaded_waypoint_indices[v])]_vars


IsSorted(s) == \A i, j \in DOMAIN s : i < j => s[i] < s[j]

\* C39 as claimed: in every reachable state, an item-reached message handled
\* while a mission is being loaded included, the reached list of a vehicle
\* is sorted without repetition and lies within the original list, so the
\* percent complete len(reached) / len(original) * 100 is at most 100.
C39_ProgressBounded ==
    \A v \in SessionUAVs :
       /\ IsSorted(reached_waypoint_indices[v])
       /\ Within(reached_waypoint_indices[v], original_waypoint_indices[v])
       /\ Len(reached_waypoint_indices[v]) * 100
             <= 100 * Len(original_waypoint_indices[v])


\* the thread is writing a message to the channel
Writing(t, chan) == sender[t].pc = "sending" /\ sender[t].chan = chan

\* C31 as claimed: no two sends are in progress at the same time on the same
\* channel, whichever threads make them.
C31_SendsSerialized ==
    \A t1, t2 \in Threads, chan \in {"telem1", "telem2"} :
       (Writing(t1, chan) /\ Writing(t2, chan)) => t1 = t2


\* C33 as claimed: every message that leaves the inbound stream of Telem1
\* leaves it through the receive loop, which dispatches it; no other thread
\* takes a message from the stream.
C33_SingleReader == [][Len(inbox') < Len(inbox) => LoopRecv]_vars

====
